---------------------------- MODULE Spec2Model ----------------------------
(***************************************************************************)
(* A model of the SpendingTracker server: the Express routes of            *)
(* /api/transactions and /api/metrics over the two storage back ends       *)
(* (MemStorage and DbStorage) and the edit-transaction validation, and of   *)
(* the client's transaction table and edit dialog that call them.          *)
(*                                                                         *)
(* Conventions                                                             *)
(*   - a string the code inspects character by character (items, search,   *)
(*     page, limit) is a sequence of one-character strings;                *)
(*   - a JavaScript number that can be NaN or Infinity is a record         *)
(*     [k, v] with k in {"num", "nan", "inf"};                             *)
(*   - a price is an integer count of thousandths of the currency unit, so *)
(*     that toFixed(2) has something to round;                             *)
(*   - an instant is an integer count of hours since 2024-12-01T00:00Z, a  *)
(*     Date is [valid, t] (valid = FALSE is JavaScript's Invalid Date).    *)
(***************************************************************************)
EXTENDS Integers, Sequences, FiniteSets, TLC

VARIABLES
    backend,        \* which class `storage` is an instance of: "mem" or "db"
                    \* ("down": a DbStorage that cannot reach its database)
    transactions,   \* the stored transactions, in Map insertion / table order
    now,            \* the current instant (new Date())
    tz,             \* the server's offset from UTC, in hours
    res,            \* the HTTP response in flight, with the request it answers
    hist,           \* observer: the run of consecutive list pages 1, 2, ... seen
    edited,         \* observer: the last update that succeeded
    edits,          \* the number of update requests sent so far
    pending,        \* the update requests being handled side by side
    table,          \* the client's TransactionTable: its filters, page and data
    form            \* the client's EditTransactionDialog: its form values

vars ==
    <<backend, transactions, now, tz, res, hist, edited, edits, pending, table,
      form>>

---------------------------------------------------------------------------
(* Bounds of the model *)

NumSeed == 2            \* transactions seeded (the code seeds 20)
MaxSeedAge == 1         \* seeds are dated 0..MaxSeedAge days back (the code: 0..29)
MaxEdits == 2           \* update requests sent in one behaviour

---------------------------------------------------------------------------
(* JavaScript values *)

Num(n) == [k |-> "num", v |-> n]
NaN == [k |-> "nan", v |-> 0]
Infinity == [k |-> "inf", v |-> 0]

\* A query parameter of req.query: absent (undefined) or a string.
Absent == [present |-> FALSE, s |-> <<>>]
Str(s) == [present |-> TRUE, s |-> s]

\* JavaScript truthiness of string | undefined: undefined and "" are falsy.
Truthy(p) == p.present /\ p.s # <<>>

DigitChars == {"0", "1", "2", "3", "9"}

DigitVal(c) ==
    CASE c = "0" -> 0 [] c = "1" -> 1 [] c = "2" -> 2 [] c = "3" -> 3 [] c = "9" -> 9

RECURSIVE ParseDigits(_, _, _)
ParseDigits(s, i, acc) ==
    IF i > Len(s) \/ s[i] \notin DigitChars
    THEN acc
    ELSE ParseDigits(s, i + 1, [n |-> acc.n * 10 + DigitVal(s[i]), any |-> TRUE])

\* parseInt(string): an optional sign, then the longest run of digits; NaN
\* when there is no digit.
parseInt(s) ==
    LET signed == Len(s) > 0 /\ s[1] \in {"-", "+"}
        neg == Len(s) > 0 /\ s[1] = "-"
        d == ParseDigits(s, IF signed THEN 2 ELSE 1, [n |-> 0, any |-> FALSE])
    IN  IF d.any THEN Num(IF neg THEN 0 - d.n ELSE d.n) ELSE NaN

\* x || d for a number x that is finite or NaN: 0 and NaN are falsy.
OrDefault(x, d) == IF x.k = "num" /\ x.v # 0 THEN x.v ELSE d

\* Math.ceil(total / limit) for an integer total >= 0 and a limit that is an
\* integer or NaN.
MathCeilDiv(total, limit) ==
    IF limit.k # "num" THEN NaN
    ELSE IF limit.v = 0 THEN (IF total = 0 THEN NaN ELSE Infinity)
    ELSE IF limit.v > 0 THEN Num((total + limit.v - 1) \div limit.v)
    ELSE Num(0 - (total \div (0 - limit.v)))

\* Array.prototype.slice(start, end) with integer arguments.
Slice(a, start, end) ==
    LET len == Len(a)
        Clamp(i) == IF i < 0 THEN (IF len + i < 0 THEN 0 ELSE len + i)
                    ELSE (IF i > len THEN len ELSE i)
    IN  SubSeq(a, Clamp(start) + 1, Clamp(end))

\* Number.prototype.toFixed(2) followed by parseFloat, on thousandths.
ToFixed2(x) == ((x + 5) \div 10) * 10

Lower(c) == CASE c = "A" -> "a" [] c = "B" -> "b" [] OTHER -> c

toLowerCase(s) == [i \in 1..Len(s) |-> Lower(s[i])]

\* String.prototype.includes
includes(s, sub) ==
    \E i \in 0..(Len(s) - Len(sub)) : SubSeq(s, i + 1, i + Len(sub)) = sub

\* PostgreSQL's ILIKE: % matches any run of characters, _ any one character,
\* every other character itself, without regard to case.
RECURSIVE ILike(_, _)
ILike(s, p) ==
    IF p = <<>> THEN s = <<>>
    ELSE IF p[1] = "%" THEN ILike(s, Tail(p)) \/ (s # <<>> /\ ILike(Tail(s), p))
    ELSE IF p[1] = "_" THEN s # <<>> /\ ILike(Tail(s), Tail(p))
    ELSE s # <<>> /\ Lower(s[1]) = Lower(p[1]) /\ ILike(Tail(s), Tail(p))

\* The sort order string, e.g. price:desc, as its words and colons;
\* String.prototype.split(':') cuts it at each colon.
RECURSIVE split(_)
split(s) ==
    IF \A i \in 1..Len(s) : s[i] # ":" THEN <<s>>
    ELSE LET i == CHOOSE j \in 1..Len(s) :
                      s[j] = ":" /\ \A m \in 1..(j - 1) : s[m] # ":"
         IN  <<SubSeq(s, 1, i - 1)>> \o split(SubSeq(s, i + 1, Len(s)))

---------------------------------------------------------------------------
(* Dates *)

Date(t) == [valid |-> TRUE, t |-> t]
InvalidDate == [valid |-> FALSE, t |-> 0]

\* The local calendar day of an instant (days since 2024-12-01).
LocalDay(t) == (t + tz) \div 24

\* new Date(y, m, d): local midnight of a local calendar day.
LocalMidnight(day) == day * 24 - tz

\* The calendar: month and year of a day number, 2024-11-01 .. 2025-02-28.
MonthOf(day) ==
    IF day < 0 THEN [month |-> 10, year |-> 2024]
    ELSE IF day < 31 THEN [month |-> 11, year |-> 2024]
    ELSE IF day < 62 THEN [month |-> 0, year |-> 2025]
    ELSE [month |-> 1, year |-> 2025]

\* The instants the server may start at: 2025-01-01T12:00Z.
StartInstants == {31 * 24 + 12}

---------------------------------------------------------------------------
(* The schema *)

\* categoryEnum: the closed set of category labels.
Categories ==
    {"Food", "Petrol", "Rent", "Healthcare", "Entertainment", "Clothing",
     "Insurance", "Communication", "Loans", "Toll", "Transportation",
     "Miscellaneous"}

\* A row of the transactions table.
Transaction(id, price, items, dateTime, dateOnly, category, userId) ==
    [id |-> id, price |-> price, items |-> items, dateTime |-> dateTime,
     dateOnly |-> dateOnly, category |-> category, userId |-> userId]

---------------------------------------------------------------------------
(* Seeding *)

\* The values the seeding draws from, cut down to a few: two prices with two
\* decimals, two item texts, two categories.
SeedPrices == {1000, 2000}
SeedItems == {<<"A", "b">>, <<"b">>}
SeedCategories == {"Food", "Rent"}

\* One seeded transaction: dated `age` days before the construction time,
\* dateOnly the local midnight of that day, userId 1.
SeedTransaction(id, price, items, age, category, today) ==
    LET date == today - age * 24
    IN  Transaction(id, price, items, Date(date),
                    Date(LocalMidnight(LocalDay(date))), category, 1)

\* MemStorage.seedTransactions: ids 1..NumSeed in insertion order, every
\* other field drawn at random. The set of the stores it can build.
seedTransactions(today) ==
    LET Draws == [1..NumSeed -> [price : SeedPrices, items : SeedItems,
                                 age : 0..MaxSeedAge, category : SeedCategories]]
    IN  {[i \in 1..NumSeed |->
             SeedTransaction(i, s[i].price, s[i].items, s[i].age,
                             s[i].category, today)] : s \in Draws}

---------------------------------------------------------------------------
(* MemStorage.getTransactions *)

\* As the comparator below, were the direction of the sort ignored.
SortCompare_AlwaysAscending(a, b, field, isDesc) ==
    IF field = "price" THEN a.price - b.price
    ELSE IF ~a.dateTime.valid \/ ~b.dateTime.valid THEN 0
    ELSE a.dateTime.t - b.dateTime.t

\* The comparator handed to Array.prototype.sort; a NaN result (an Invalid
\* Date on either side) counts as 0.
SortCompare(a, b, field, isDesc) ==
    IF field = "price"
    THEN (IF isDesc THEN b.price - a.price ELSE a.price - b.price)
    ELSE IF ~a.dateTime.valid \/ ~b.dateTime.valid THEN 0
    ELSE (IF isDesc THEN b.dateTime.t - a.dateTime.t
          ELSE a.dateTime.t - b.dateTime.t)

\* x goes after the last element that does not compare greater than it.
RECURSIVE InsertSorted(_, _, _, _)
InsertSorted(sorted, x, field, isDesc) ==
    IF sorted = <<>> THEN <<x>>
    ELSE LET last == sorted[Len(sorted)]
         IN  IF SortCompare(last, x, field, isDesc) > 0
             THEN Append(InsertSorted(SubSeq(sorted, 1, Len(sorted) - 1),
                                      x, field, isDesc), last)
             ELSE Append(sorted, x)

\* Array.prototype.sort: a stable sort.
RECURSIVE ArraySort(_, _, _)
ArraySort(a, field, isDesc) ==
    IF a = <<>> THEN <<>>
    ELSE InsertSorted(ArraySort(SubSeq(a, 1, Len(a) - 1), field, isDesc),
                      a[Len(a)], field, isDesc)

\* The result of a storage call: a value, or an exception thrown.
Thrown == [ok |-> FALSE]

\* The database cannot be reached: every query of the DbStorage rejects.
Unreachable == backend = "down"

\* As the operation below, were the default order the oldest first.
MemGetTransactions_DefaultAscending(filters) ==
    LET all == transactions
        byCategory ==
            IF Truthy(filters.category)
            THEN SelectSeq(all, LAMBDA t : <<t.category>> = filters.category.s)
            ELSE all
        filteredTransactions ==
            IF Truthy(filters.search)
            THEN LET searchLower == toLowerCase(filters.search.s)
                 IN  SelectSeq(byCategory,
                         LAMBDA t : includes(toLowerCase(t.items), searchLower))
            ELSE byCategory
        totalCount == Len(filteredTransactions)
        parts == split(filters.sortBy.s)
        field == parts[1]
        isDesc == Len(parts) >= 2 /\ parts[2] = <<"desc">>
        sorted ==
            IF Truthy(filters.sortBy)
            THEN (IF field = <<"price">>
                  THEN ArraySort(filteredTransactions, "price", isDesc)
                  ELSE IF field = <<"date">>
                  THEN ArraySort(filteredTransactions, "date", isDesc)
                  ELSE filteredTransactions)
            ELSE ArraySort(filteredTransactions, "date", FALSE)
        limit == OrDefault(filters.limit, 10)
        page == OrDefault(filters.page, 1)
        startIndex == (page - 1) * limit
    IN  {[ok |-> TRUE,
          transactions |-> Slice(sorted, startIndex, startIndex + limit),
          totalCount |-> totalCount]}

MemGetTransactions(filters) ==
    LET all == transactions
        byCategory ==
            IF Truthy(filters.category)
            THEN SelectSeq(all, LAMBDA t : <<t.category>> = filters.category.s)
            ELSE all
        filteredTransactions ==
            IF Truthy(filters.search)
            THEN LET searchLower == toLowerCase(filters.search.s)
                 IN  SelectSeq(byCategory,
                         LAMBDA t : includes(toLowerCase(t.items), searchLower))
            ELSE byCategory
        totalCount == Len(filteredTransactions)
        parts == split(filters.sortBy.s)
        field == parts[1]
        isDesc == Len(parts) >= 2 /\ parts[2] = <<"desc">>
        sorted ==
            IF Truthy(filters.sortBy)
            THEN (IF field = <<"price">>
                  THEN ArraySort(filteredTransactions, "price", isDesc)
                  ELSE IF field = <<"date">>
                  THEN ArraySort(filteredTransactions, "date", isDesc)
                  ELSE filteredTransactions)
            ELSE ArraySort(filteredTransactions, "date", TRUE)
        limit == OrDefault(filters.limit, 10)
        page == OrDefault(filters.page, 1)
        startIndex == (page - 1) * limit
    IN  {[ok |-> TRUE,
          transactions |-> Slice(sorted, startIndex, startIndex + limit),
          totalCount |-> totalCount]}

---------------------------------------------------------------------------
(* DbStorage.getTransactions *)

\* The rows an ORDER BY on one column may return: every arrangement of the
\* rows in which the column does not decrease (increase, for DESC). Rows
\* with equal values come in any order, and the order may differ from one
\* query to the next.
Orderings(rows, field, isDesc) ==
    LET n == Len(rows)
        Key(t) == IF field = "price" THEN t.price ELSE t.dateTime.t
        Perms == {f \in [1..n -> 1..n] : \A i, j \in 1..n : i # j => f[i] # f[j]}
        Arranged(f) == [i \in 1..n |-> rows[f[i]]]
    IN  {Arranged(f) : f \in {g \in Perms :
            \A i \in 1..(n - 1) :
                IF isDesc THEN Key(rows[g[i]]) >= Key(rows[g[i + 1]])
                ELSE Key(rows[g[i]]) <= Key(rows[g[i + 1]])}}

DbGetTransactions(filters) ==
    LET limit == OrDefault(filters.limit, 10)
        offset == (OrDefault(filters.page, 1) - 1) * limit
        \* category = $n compares with an enum column: a label outside the
        \* enum is an error of the query
        badLabel == Truthy(filters.category)
                    /\ \E i \in 1..Len(filters.category.s) :
                           filters.category.s[i] \notin Categories
        byCategory ==
            IF Truthy(filters.category)
            THEN SelectSeq(transactions,
                           LAMBDA t : <<t.category>> = filters.category.s)
            ELSE transactions
        matching ==
            IF Truthy(filters.search)
            THEN SelectSeq(byCategory,
                     LAMBDA t : ILike(t.items, <<"%">> \o filters.search.s \o <<"%">>))
            ELSE byCategory
        totalCount == Len(matching)
        parts == split(filters.sortBy.s)
        field == parts[1]
        isDesc == Len(parts) >= 2 /\ parts[2] = <<"desc">>
        ordered ==
            IF Truthy(filters.sortBy) /\ field = <<"price">>
            THEN Orderings(matching, "price", isDesc)
            ELSE IF Truthy(filters.sortBy) /\ field = <<"date">>
            THEN Orderings(matching, "date", isDesc)
            ELSE Orderings(matching, "date", TRUE)
    IN  IF badLabel \/ limit < 0 \/ offset < 0
        THEN {Thrown}
        ELSE {[ok |-> TRUE,
               transactions |-> SubSeq(rows, offset + 1,
                                   IF offset + limit > Len(rows) THEN Len(rows)
                                   ELSE offset + limit),
               totalCount |-> totalCount] : rows \in ordered}

\* storage.getTransactions(undefined, filters), on the back end in use.
getTransactions(filters) ==
    IF backend = "mem" THEN MemGetTransactions(filters)
    ELSE IF Unreachable THEN {Thrown}
    ELSE DbGetTransactions(filters)

---------------------------------------------------------------------------
(* GET /api/transactions *)

RECURSIVE SumPrice(_)
SumPrice(ts) == IF ts = <<>> THEN 0 ELSE ts[1].price + SumPrice(Tail(ts))

ListFilters(q) ==
    [search |-> q.search, category |-> q.category, sortBy |-> q.sortBy,
     dateFilter |-> q.dateFilter,
     page |-> IF Truthy(q.page) THEN parseInt(q.page.s) ELSE Num(1),
     limit |-> IF Truthy(q.limit) THEN parseInt(q.limit.s) ELSE Num(10)]

NoResponse == [op |-> "none", status |-> 0]

ListResponse(q, result) ==
    LET filters == ListFilters(q)
    IN  IF ~result.ok
        THEN [op |-> "list", status |-> 500, req |-> q,
              message |-> "Failed to fetch transactions"]
        ELSE [op |-> "list", status |-> 200, req |-> q,
              transactions |-> result.transactions,
              pagination |-> [total |-> result.totalCount,
                              page |-> filters.page,
                              limit |-> filters.limit,
                              pages |-> MathCeilDiv(result.totalCount, filters.limit)],
              filteredTotal |-> ToFixed2(SumPrice(result.transactions))]

\* The observer of page runs: a request for page 1 starts a run, the same
\* query for the next page extends it, anything else ends it.
NoHist == [on |-> FALSE]
NoEdit == [on |-> FALSE]

SameQuery(q1, q2) ==
    /\ q1.search = q2.search /\ q1.category = q2.category
    /\ q1.sortBy = q2.sortBy /\ q1.dateFilter = q2.dateFilter
    /\ q1.limit = q2.limit

HistAfter(q, response) ==
    LET page == ListFilters(q).page
    IN  IF response.status # 200 THEN NoHist
        ELSE IF page = Num(1)
        THEN [on |-> TRUE, q |-> q, next |-> 2, acc |-> response.transactions,
              pages |-> response.pagination.pages]
        ELSE IF hist.on /\ SameQuery(hist.q, q) /\ page = Num(hist.next)
        THEN [on |-> TRUE, q |-> q, next |-> hist.next + 1,
              acc |-> hist.acc \o response.transactions,
              pages |-> response.pagination.pages]
        ELSE NoHist

\* The handler, run from the request to the response.
\* As the handler below, were the store's own array sorted and kept.
ListTransactions_SortsStore(q) ==
    /\ \E result \in getTransactions(ListFilters(q)) :
          /\ res' = ListResponse(q, result)
          /\ hist' = HistAfter(q, ListResponse(q, result))
          /\ transactions' = IF result.ok
                             THEN ArraySort(transactions, "date", TRUE)
                             ELSE transactions
    /\ UNCHANGED <<backend, now, tz, edited, edits, pending, table, form>>

ListTransactions(q) ==
    /\ \E result \in getTransactions(ListFilters(q)) :
          /\ res' = ListResponse(q, result)
          /\ hist' = HistAfter(q, ListResponse(q, result))
    /\ UNCHANGED <<backend, transactions, now, tz, edited, edits, pending, table, form>>

---------------------------------------------------------------------------
(* The requests the model sends to GET /api/transactions *)

Query(search, category, sortBy, dateFilter, page, limit) ==
    [search |-> search, category |-> category, sortBy |-> sortBy,
     dateFilter |-> dateFilter, page |-> page, limit |-> limit]

SearchInputs == {Absent, Str(<<"a">>), Str(<<"B">>), Str(<<"_">>)}
CategoryInputs == {Absent, Str(<<"Food">>), Str(<<"Bogus">>)}
SortInputs ==
    {Absent, Str(<<"price", ":", "asc">>), Str(<<"price", ":", "desc">>),
     Str(<<"date", ":", "asc">>), Str(<<"date", ":", "desc">>),
     Str(<<"items", ":", "asc">>)}
DateFilterInputs ==
    {Absent, Str(<<"today">>), Str(<<"yesterday">>), Str(<<"this_week">>),
     Str(<<"this_month">>)}
PageInputs ==
    {Absent, Str(<<"1">>), Str(<<"2">>), Str(<<"3">>), Str(<<"-", "1">>),
     Str(<<"x">>)}
LimitInputs ==
    {Absent, Str(<<"1">>), Str(<<"2">>), Str(<<"0">>), Str(<<"-", "1">>),
     Str(<<"x">>)}

\* Requests that vary the search and the category.
FilterQueries ==
    {Query(s, c, Absent, Absent, Absent, l) :
        s \in SearchInputs, c \in CategoryInputs, l \in {Absent, Str(<<"1">>)}}

\* Requests that carry a date filter.
DateQueries ==
    {Query(Absent, c, Absent, d, Absent, Absent) :
        c \in {Absent, Str(<<"Food">>)}, d \in DateFilterInputs}

\* Requests that vary the order and page through the result.
PagingQueries ==
    {Query(Absent, Absent, o, Absent, p, l) :
        o \in SortInputs, p \in {Absent, Str(<<"1">>), Str(<<"2">>), Str(<<"3">>)},
        l \in {Absent, Str(<<"1">>), Str(<<"2">>)}}

\* Requests with any page and any limit.
EdgeQueries ==
    {Query(Absent, Absent, Absent, Absent, p, l) :
        p \in PageInputs, l \in LimitInputs}

ListQueries == FilterQueries \cup DateQueries \cup PagingQueries \cup EdgeQueries

---------------------------------------------------------------------------
(* JSON bodies and the edit schema *)

JUndefined == [ty |-> "undefined"]
JNumber(n) == [ty |-> "number", v |-> n]
JString(s) == [ty |-> "string", s |-> s]

\* The text of a date, by its form: "2025-01-01" (form date),
\* "2025-01-01T10:00" (form local), or a text that is no date (form text).
DateText(day) == [form |-> "date", day |-> day, hour |-> 0]
LocalDateTimeText(day, hour) == [form |-> "local", day |-> day, hour |-> hour]
NoDateText == [form |-> "text", day |-> 0, hour |-> 0]

\* new Date(string): a date-only text is midnight UTC, a date-time text
\* without offset is local time, anything else is an Invalid Date.
NewDate(text) ==
    IF text.form = "date" THEN Date(text.day * 24)
    ELSE IF text.form = "local" THEN Date(text.day * 24 + text.hour - tz)
    ELSE InvalidDate

\* As editTransactionSchema, with price: z.number().nonnegative().
editTransactionSchema_NonNegativePrice(obj) ==
    {f \in {"id", "price", "items", "dateTime", "dateOnly", "category"} :
        \/ f = "id" /\ obj.id.ty # "number"
        \/ f = "price" /\ (obj.price.ty # "number" \/ ~(obj.price.v >= 0))
        \/ f = "items" /\ (obj.items.ty # "string" \/ ~(Len(obj.items.s) >= 1))
        \/ f = "dateTime" /\ obj.dateTime.ty # "string"
        \/ f = "dateOnly" /\ obj.dateOnly.ty # "string"
        \/ f = "category" /\ (obj.category.ty # "string"
                                \/ obj.category.s \notin Categories)}

\* editTransactionSchema.parse: the paths of the issues of the ZodError, the
\* empty set when the object parses.
editTransactionSchema(obj) ==
    {f \in {"id", "price", "items", "dateTime", "dateOnly", "category"} :
        \/ f = "id" /\ obj.id.ty # "number"
        \/ f = "price" /\ (obj.price.ty # "number" \/ ~(obj.price.v > 0))
        \/ f = "items" /\ (obj.items.ty # "string" \/ ~(Len(obj.items.s) >= 1))
        \/ f = "dateTime" /\ obj.dateTime.ty # "string"
        \/ f = "dateOnly" /\ obj.dateOnly.ty # "string"
        \/ f = "category" /\ (obj.category.ty # "string"
                                \/ obj.category.s \notin Categories)}

\* { id, ...req.body }: a key of the body replaces the id of the URL.
WithId(id, body) ==
    [id |-> IF body.id.ty # "undefined" THEN body.id ELSE JNumber(id),
     price |-> body.price, items |-> body.items, dateTime |-> body.dateTime,
     dateOnly |-> body.dateOnly, category |-> body.category]

---------------------------------------------------------------------------
(* getTransaction and updateTransaction *)

NotFound == [found |-> FALSE]

\* Map.get(id) / SELECT ... WHERE id = $1, result[0].
getTransaction(id) ==
    IF \E i \in 1..Len(transactions) : transactions[i].id = id
    THEN [found |-> TRUE,
          value |-> transactions[CHOOSE i \in 1..Len(transactions) :
                                     transactions[i].id = id]]
    ELSE NotFound

\* As Map.set(id, value), were the value added as a new entry.
MapSet_AddsEntry(id, value) == Append(transactions, value)

\* Map.set(id, value) on a key the map holds: the entry keeps its place.
MapSet(id, value) ==
    [i \in 1..Len(transactions) |->
        IF transactions[i].id = id THEN value ELSE transactions[i]]

\* As MemStorage.updateTransaction, spreading updatedData over the record
\* (the id of the payload lands in the record).
MemUpdateTransaction_SpreadsData(id, updatedData) ==
    LET transaction == getTransaction(id)
        updated == [transaction.value EXCEPT
                       !.id = updatedData.id.v,
                       !.price = updatedData.price.v,
                       !.items = updatedData.items.s,
                       !.dateTime = NewDate(updatedData.dateTime.s),
                       !.dateOnly = NewDate(updatedData.dateOnly.s),
                       !.category = updatedData.category.s]
    IN  IF ~transaction.found
        THEN [ok |-> FALSE, store |-> transactions]
        ELSE [ok |-> TRUE, value |-> updated, store |-> MapSet(id, updated)]

\* As MemStorage.updateTransaction, taking dateOnly from dateTime.
MemUpdateTransaction_DateOnlyFromDateTime(id, updatedData) ==
    LET transaction == getTransaction(id)
        updated == [transaction.value EXCEPT
                       !.price = updatedData.price.v,
                       !.items = updatedData.items.s,
                       !.dateTime = NewDate(updatedData.dateTime.s),
                       !.dateOnly = NewDate(updatedData.dateTime.s),
                       !.category = updatedData.category.s]
    IN  IF ~transaction.found
        THEN [ok |-> FALSE, store |-> transactions]
        ELSE [ok |-> TRUE, value |-> updated, store |-> MapSet(id, updated)]

\* MemStorage.updateTransaction: [ok, value, store].
MemUpdateTransaction(id, updatedData) ==
    LET transaction == getTransaction(id)
        updated == [transaction.value EXCEPT
                       !.price = updatedData.price.v,
                       !.items = updatedData.items.s,
                       !.dateTime = NewDate(updatedData.dateTime.s),
                       !.dateOnly = NewDate(updatedData.dateOnly.s),
                       !.category = updatedData.category.s]
    IN  IF ~transaction.found
        THEN [ok |-> FALSE, store |-> transactions]
        ELSE [ok |-> TRUE, value |-> updated, store |-> MapSet(id, updated)]

\* A numeric(10, 2) column keeps two decimals.
Numeric2(x) == ((x + 5) \div 10) * 10

\* A date column keeps the calendar day of the value it is given.
DateColumn(d) == Date((d.t \div 24) * 24)

\* DbStorage.updateTransaction: UPDATE ... WHERE id = $6 RETURNING *. An
\* Invalid Date cannot be sent as a parameter: the call throws.
DbUpdateTransaction(id, updatedData) ==
    LET dateTime == NewDate(updatedData.dateTime.s)
        dateOnly == NewDate(updatedData.dateOnly.s)
        Set(row) == [row EXCEPT
                        !.price = Numeric2(updatedData.price.v),
                        !.items = updatedData.items.s,
                        !.dateTime = dateTime,
                        !.dateOnly = DateColumn(dateOnly),
                        !.category = updatedData.category.s]
        row == getTransaction(id)
    IN  IF ~dateTime.valid \/ ~dateOnly.valid \/ ~row.found
        THEN [ok |-> FALSE, store |-> transactions]
        ELSE [ok |-> TRUE, value |-> Set(row.value),
              store |-> [i \in 1..Len(transactions) |->
                            IF transactions[i].id = id
                            THEN Set(transactions[i]) ELSE transactions[i]]]

updateTransaction(id, updatedData) ==
    IF backend = "mem" THEN MemUpdateTransaction(id, updatedData)
    ELSE IF Unreachable THEN [ok |-> FALSE, store |-> transactions]
    ELSE DbUpdateTransaction(id, updatedData)

---------------------------------------------------------------------------
(* GET and PUT /api/transactions/:id *)

\* GET /api/transactions/:id
GetTransaction(idParam) ==
    LET id == parseInt(idParam)
        transaction == getTransaction(id.v)
        req == [id |-> idParam]
    IN  /\ res' =
              IF id.k = "nan"
              THEN [op |-> "get", status |-> 400, req |-> req,
                    message |-> "Invalid transaction ID"]
              ELSE IF Unreachable
              THEN [op |-> "get", status |-> 500, req |-> req,
                    message |-> "Failed to fetch transaction"]
              ELSE IF ~transaction.found
              THEN [op |-> "get", status |-> 404, req |-> req,
                    message |-> "Transaction not found"]
              ELSE [op |-> "get", status |-> 200, req |-> req,
                    body |-> transaction.value]
        /\ UNCHANGED <<backend, transactions, now, tz, hist, edited, edits, pending, table, form>>

\* As PUT /api/transactions/:id, without the lookup before the update.
PutOutcome_NoLookup(idParam, body) ==
    LET id == parseInt(idParam)
        req == [id |-> idParam, body |-> body]
        data == WithId(id.v, body)
        issues == editTransactionSchema(data)
        updatedTransaction == updateTransaction(id.v, data)
    IN  IF id.k = "nan"
        THEN [store |-> transactions,
              response |-> [op |-> "update", status |-> 400, req |-> req,
                            message |-> "Invalid transaction ID"]]
        ELSE IF issues # {}
        THEN [store |-> transactions,
              response |-> [op |-> "update", status |-> 400, req |-> req,
                            message |-> "Validation error", errors |-> issues]]
        ELSE IF ~updatedTransaction.ok
        THEN [store |-> updatedTransaction.store,
              response |-> [op |-> "update", status |-> 500, req |-> req,
                            message |-> "Failed to update transaction"]]
        ELSE [store |-> updatedTransaction.store,
              response |-> [op |-> "update", status |-> 200, req |-> req,
                            body |-> updatedTransaction.value]]

\* PUT /api/transactions/:id: the response and the store it leaves.
PutOutcome(idParam, body) ==
    LET id == parseInt(idParam)
        req == [id |-> idParam, body |-> body]
        data == WithId(id.v, body)
        issues == editTransactionSchema(data)
        transaction == getTransaction(id.v)
        updatedTransaction == updateTransaction(id.v, data)
    IN  IF id.k = "nan"
        THEN [store |-> transactions,
              response |-> [op |-> "update", status |-> 400, req |-> req,
                            message |-> "Invalid transaction ID"]]
        ELSE IF issues # {}
        THEN [store |-> transactions,
              response |-> [op |-> "update", status |-> 400, req |-> req,
                            message |-> "Validation error", errors |-> issues]]
        ELSE IF Unreachable
        THEN [store |-> transactions,
              response |-> [op |-> "update", status |-> 500, req |-> req,
                            message |-> "Failed to update transaction"]]
        ELSE IF ~transaction.found
        THEN [store |-> transactions,
              response |-> [op |-> "update", status |-> 404, req |-> req,
                            message |-> "Transaction not found"]]
        ELSE IF ~updatedTransaction.ok
        THEN [store |-> updatedTransaction.store,
              response |-> [op |-> "update", status |-> 500, req |-> req,
                            message |-> "Failed to update transaction"]]
        ELSE [store |-> updatedTransaction.store,
              response |-> [op |-> "update", status |-> 200, req |-> req,
                            body |-> updatedTransaction.value]]

UpdateTransaction(idParam, body) ==
    LET out == PutOutcome(idParam, body)
    IN  /\ res' = out.response
        /\ transactions' = out.store
        /\ edited' = IF out.response.status = 200
                     THEN [on |-> TRUE, id |-> parseInt(idParam).v,
                           body |-> out.response.body]
                     ELSE IF out.store = transactions THEN edited ELSE NoEdit
        /\ hist' = NoHist
        /\ edits' = edits + 1
        /\ UNCHANGED <<backend, now, tz, pending, table, form>>

---------------------------------------------------------------------------
(* The requests the model sends to /api/transactions/:id *)

IdInputs == {<<"1">>, <<"2">>, <<"9">>, <<"x">>}

\* The day the server starts on.
Today == CHOOSE d \in {t \div 24 : t \in StartInstants} : TRUE

PriceInputs == {JNumber(1005), JNumber(2000)}
BadPriceInputs == {JNumber(0 - 5000), JNumber(0), JString(<<"1">>)}
ItemsInputs == {JString(<<"a">>)}
BadItemsInputs == {JString(<<>>)}
DateTimeInputs ==
    {JString(LocalDateTimeText(Today, 10)), JString(LocalDateTimeText(Today - 1, 23))}
DateOnlyInputs == {JString(DateText(Today)), JString(DateText(Today - 1))}
BadDateInputs == {JString(NoDateText)}
CategoryInputsOfEdit == {JString("Food"), JString("Petrol")}
BadCategoryInputs == {JString("Bogus")}

Body(id, price, items, dateTime, dateOnly, category, userId) ==
    [id |-> id, price |-> price, items |-> items, dateTime |-> dateTime,
     dateOnly |-> dateOnly, category |-> category, userId |-> userId]

\* Payloads the schema accepts whose dates are dates; some carry an id or a
\* userId of their own.
ValidBodies ==
    {Body(JUndefined, p, i, dt, d, c, JUndefined) :
        p \in PriceInputs, i \in ItemsInputs, dt \in DateTimeInputs,
        d \in DateOnlyInputs, c \in CategoryInputsOfEdit}
    \cup
    {Body(i, JNumber(1005), JString(<<"a">>), JString(LocalDateTimeText(Today, 10)),
          JString(DateText(Today)), JString("Petrol"), u) :
        i \in {JUndefined, JNumber(2), JNumber(9)}, u \in {JUndefined, JNumber(7)}}

\* Payloads with a price, items or category the schema refuses.
RefusedBodies ==
    {Body(i, p, it, JString(LocalDateTimeText(Today, 10)), JString(DateText(Today)),
          c, JUndefined) :
        i \in {JUndefined, JString(<<"1">>)},
        p \in BadPriceInputs \cup {JNumber(2000)},
        it \in BadItemsInputs \cup ItemsInputs,
        c \in BadCategoryInputs \cup {JString("Food")}}
    \ ValidBodies

\* Payloads the schema accepts whose dateTime or dateOnly is no date.
BadDateBodies ==
    {Body(JUndefined, JNumber(2000), JString(<<"a">>), dt, d, JString("Food"),
          JUndefined) :
        dt \in BadDateInputs \cup {JString(LocalDateTimeText(Today, 10))},
        d \in BadDateInputs \cup {JString(DateText(Today))}}
    \ ValidBodies

EditBodies == ValidBodies \cup RefusedBodies \cup BadDateBodies

---------------------------------------------------------------------------
(* The server *)

TimeZones == {-1, 0}

\* The rows of a table that holds the same transactions: a date column
\* gives back midnight UTC of its day.
DbRows(store) ==
    [i \in 1..Len(store) |->
        [store[i] EXCEPT !.dateOnly = Date(LocalDay(store[i].dateTime.t) * 24)]]

\* The seeded stores that differ in their dates only.
PlainSeeds(today) ==
    {st \in seedTransactions(today) :
        \A i \in 1..Len(st) :
            /\ st[i].price = 1000
            /\ st[i].items = <<"b">>
            /\ st[i].category = "Food"}

\* The seeded stores that differ in their prices, dates and categories.
PricedSeeds(today) ==
    {st \in seedTransactions(today) : \A i \in 1..Len(st) : st[i].items = <<"b">>}

\* The instants the metrics are asked for at: 2025-01-01T12:00Z, when the
\* month before is the December of the year before, and 2025-02-01T12:00Z.
MetricInstants == StartInstants \cup {62 * 24 + 12}

\* The client before the table is mounted and with the dialog closed.
NoTable == [mounted |-> FALSE]
NoForm == [open |-> FALSE]

\* Start-up: `storage` is a MemStorage, seeded, or a DbStorage over a table
\* that holds rows of the same kind.
StartWith(seeds, zones, instants) ==
    /\ backend \in {"mem", "db"}
    /\ tz \in zones
    /\ now \in instants
    /\ LET stores == CASE seeds = "plain" -> PlainSeeds(now)
                       [] seeds = "priced" -> PricedSeeds(now)
                       [] OTHER -> seedTransactions(now)
       IN  transactions \in
               IF backend = "mem" THEN stores
               ELSE {DbRows(st) : st \in stores}
    /\ res = NoResponse
    /\ hist = NoHist
    /\ edited = NoEdit
    /\ edits = 0
    /\ pending = <<>>
    /\ table = NoTable
    /\ form = NoForm

Init == StartWith("any", {0}, StartInstants)

InitEdit == StartWith("plain", TimeZones, StartInstants)

InitMetrics == StartWith("priced", TimeZones, MetricInstants)

\* The client sends one request at a time. While it pages through a query
\* it asks for the next page of that query; otherwise it asks anything.
SendList(queries) ==
    /\ res = NoResponse
    /\ \E q \in queries :
          /\ hist.on => SameQuery(hist.q, q) /\ ListFilters(q).page = Num(hist.next)
          /\ ListTransactions(q)

RequestList == SendList(ListQueries)

\* The client takes the response, and goes on paging or starts over.
Receive ==
    /\ res # NoResponse
    /\ res' = NoResponse
    /\ hist' \in {hist, NoHist}
    /\ UNCHANGED <<backend, transactions, now, tz, edited, edits, pending, table, form>>

NextList == RequestList \/ Receive

SpecList == Init /\ [][NextList]_vars

RequestGet ==
    /\ res = NoResponse
    /\ \E idParam \in IdInputs : GetTransaction(idParam)

SendUpdate(ids, bodies) ==
    /\ res = NoResponse
    /\ edits < MaxEdits
    /\ \E idParam \in ids, body \in bodies : UpdateTransaction(idParam, body)

RequestUpdate == SendUpdate(IdInputs, EditBodies)

NextEdit == RequestGet \/ RequestUpdate \/ Receive

SpecEdit == InitEdit /\ [][NextEdit]_vars

---------------------------------------------------------------------------
(* What the list operation is specified to return *)

\* t satisfies the search and category filters a request supplies.
Matches(q, t) ==
    /\ Truthy(q.search) =>
           includes(toLowerCase(t.items), toLowerCase(q.search.s))
    /\ Truthy(q.category) => <<t.category>> = q.category.s

\* t falls in the date range a request names (weeks start on Sunday;
\* 2024-12-01, day 0, is a Sunday).
InDateRange(q, t) ==
    LET day == LocalDay(t.dateTime.t)
        today == LocalDay(now)
        f == q.dateFilter.s
    IN  /\ t.dateTime.valid
        /\ f = <<"today">> => day = today
        /\ f = <<"yesterday">> => day = today - 1
        /\ f = <<"this_week">> => day \div 7 = today \div 7
        /\ f = <<"this_month">> => MonthOf(day) = MonthOf(today)

MatchingTransactions(q) == SelectSeq(transactions, LAMBDA t : Matches(q, t))

\* page and limit are positive integers (given or defaulted).
WellFormedPaging(q) ==
    LET f == ListFilters(q)
    IN  f.page.k = "num" /\ f.page.v >= 1 /\ f.limit.k = "num" /\ f.limit.v >= 1

ListOk == res.op = "list" /\ res.status = 200

\* C1: filteredTotal is the sum of price over every transaction that matches
\* the filters, whatever the page and the limit (stated for requests with a
\* positive page and limit, no date filter and no search text, where the
\* two storages agree on the matching set).
C1_FilteredTotalIsSumOfAllMatches ==
    (ListOk /\ WellFormedPaging(res.req) /\ ~Truthy(res.req.dateFilter)
        /\ ~Truthy(res.req.search))
    => res.filteredTotal = ToFixed2(SumPrice(MatchingTransactions(res.req)))

\* C2: every returned transaction satisfies the search and the category
\* supplied, and totalCount is the number of stored transactions that do.
C2_OnlyMatchesReturnedAndCounted ==
    ListOk =>
        /\ \A i \in 1..Len(res.transactions) : Matches(res.req, res.transactions[i])
        /\ res.pagination.total = Len(MatchingTransactions(res.req))

\* C3: with a dateFilter, every returned transaction is inside the date range
\* and pagination.total counts only the transactions inside it.
C3_DateFilterRestrictsResult ==
    (ListOk /\ Truthy(res.req.dateFilter)) =>
        /\ \A i \in 1..Len(res.transactions) : InDateRange(res.req, res.transactions[i])
        /\ res.pagination.total =
               Len(SelectSeq(MatchingTransactions(res.req),
                             LAMBDA t : InDateRange(res.req, t)))

\* C4: every list response is a success with pages = ceil(total / limit), and
\* a page beyond pages comes back empty.
C4_PagesIsCeilAndBeyondIsEmpty ==
    res.op = "list" =>
        /\ res.status = 200
        /\ res.pagination.pages =
               MathCeilDiv(res.pagination.total, res.pagination.limit)
        /\ (res.pagination.page.k = "num" /\ res.pagination.pages.k = "num"
              /\ res.pagination.page.v > res.pagination.pages.v)
           => res.transactions = <<>>

\* The order a sortBy asks for (date:desc when none is given).
InRequestedOrder(q, ts) ==
    LET parts == split(q.sortBy.s)
        field == IF Truthy(q.sortBy) THEN parts[1] ELSE <<"date">>
        isDesc == IF Truthy(q.sortBy)
                  THEN Len(parts) >= 2 /\ parts[2] = <<"desc">> ELSE TRUE
        Key(t) == IF field = <<"price">> THEN t.price ELSE t.dateTime.t
    IN  field \in {<<"price">>, <<"date">>} =>
            \A i \in 1..(Len(ts) - 1) :
                IF isDesc THEN Key(ts[i]) >= Key(ts[i + 1])
                ELSE Key(ts[i]) <= Key(ts[i + 1])

\* The client has paged through pages 1..pages of one query.
PagedThrough ==
    /\ hist.on /\ WellFormedPaging(hist.q)
    /\ hist.pages.k = "num" /\ hist.next = hist.pages.v + 1

\* C5: pages 1..pages of one query, put end to end, hold every matching
\* transaction exactly once, in the requested order (stated for queries with
\* no search text, where the two storages agree on the matching set).
C5_PagesPartitionTheResult ==
    (PagedThrough /\ ~Truthy(hist.q.search)) =>
        /\ Len(hist.acc) = Len(MatchingTransactions(hist.q))
        /\ \A i, j \in 1..Len(hist.acc) : i # j => hist.acc[i].id # hist.acc[j].id
        /\ \A i \in 1..Len(hist.acc) : Matches(hist.q, hist.acc[i])
        /\ InRequestedOrder(hist.q, hist.acc)

\* The request has a limit <= 0 or a page or limit that is not a number.
MalformedPaging(q) ==
    \/ Truthy(q.limit) /\ (parseInt(q.limit.s).k # "num" \/ parseInt(q.limit.s).v <= 0)
    \/ Truthy(q.page) /\ parseInt(q.page.s).k # "num"

\* C6: such a request is rejected, or answered with the page and the limit it
\* was sliced by, and a finite pages >= 0.
C6_MalformedPagingOnePolicy ==
    (res.op = "list" /\ MalformedPaging(res.req)) =>
        \/ res.status = 400
        \/ /\ res.status = 200
           /\ res.pagination.limit = Num(OrDefault(ListFilters(res.req).limit, 10))
           /\ res.pagination.page = Num(OrDefault(ListFilters(res.req).page, 1))
           /\ res.pagination.pages.k = "num" /\ res.pagination.pages.v >= 0

---------------------------------------------------------------------------
(* What the edit operation is specified to do *)

\* The fields of a payload that fail the validation the claim names: a price
\* that is no positive number, empty items, a category outside the set.
RefusedFields(body) ==
    {f \in {"price", "items", "category"} :
        \/ f = "price" /\ ~(body.price.ty = "number" /\ body.price.v > 0)
        \/ f = "items" /\ ~(body.items.ty = "string" /\ body.items.s # <<>>)
        \/ f = "category" /\ ~(body.category.ty = "string"
                                 /\ body.category.s \in Categories)}

\* The text is the text of a date.
Parseable(value) == value.ty = "string" /\ value.s.form \in {"date", "local"}

\* A payload whose fields are all valid: none refused, both dates parseable,
\* and an id, if it carries one, that is a number.
ValidEdit(body) ==
    /\ RefusedFields(body) = {}
    /\ Parseable(body.dateTime) /\ Parseable(body.dateOnly)
    /\ body.id.ty \in {"undefined", "number"}

\* The response in flight answers an update request for a numeric id.
UpdateAnswered(r) == r.op = "update" /\ parseInt(r.req.id).k = "num"

\* C7: an update whose price, items or category fails validation is answered
\* 400 with a validation error that lists exactly the failing ones among
\* them, and the store is the same before and after.
C7_RefusedUpdateLeavesStore ==
    [][(UpdateAnswered(res') /\ RefusedFields(res'.req.body) # {}) =>
          /\ res'.status = 400
          /\ res'.message = "Validation error"
          /\ res'.errors \cap {"price", "items", "category"}
                 = RefusedFields(res'.req.body)
          /\ transactions' = transactions]_vars

C7_Witness ==
    /\ UpdateAnswered(res) /\ res.status = 400
    /\ res.message = "Validation error"
    /\ res.errors = {"price", "items", "category"}
    /\ getTransaction(parseInt(res.req.id).v).found

\* C8: an update whose dateTime or dateOnly is no date is refused with a
\* validation error, and no stored transaction holds an invalid date.
C8_UnparseableDateRefused ==
    /\ \A i \in 1..Len(transactions) :
           transactions[i].dateTime.valid /\ transactions[i].dateOnly.valid
    /\ (UpdateAnswered(res) /\ RefusedFields(res.req.body) = {}
          /\ res.req.body.id.ty = "undefined"
          /\ (~Parseable(res.req.body.dateTime) \/ ~Parseable(res.req.body.dateOnly)))
       => res.status = 400

C10_UpdateKeepsIdentity ==
    [][res'.op = "update" =>
          /\ Len(transactions') = Len(transactions)
          /\ \A i \in 1..Len(transactions) :
                /\ transactions'[i].id = transactions[i].id
                /\ transactions'[i].userId = transactions[i].userId
                /\ Num(transactions[i].id) # parseInt(res'.req.id)
                   => transactions'[i] = transactions[i]
          /\ res'.status = 200 =>
                /\ Num(res'.body.id) = parseInt(res'.req.id)
                /\ res'.body.userId = 1]_vars

C10_Witness ==
    /\ res.op = "update" /\ res.status = 200
    /\ parseInt(res.req.id) = Num(1)
    /\ res.req.body.id = JNumber(2)
    /\ res.req.body.userId = JNumber(7)
    /\ getTransaction(1).value = res.body
    /\ getTransaction(1).value.price = 1005

---------------------------------------------------------------------------
(* Numbers of the metrics: a quotient is kept exact, as a fraction in     *)
(* lowest terms with a positive denominator (the rounding of the          *)
(* floating-point division is left out).                                  *)

Abs(x) == IF x < 0 THEN 0 - x ELSE x

RECURSIVE GCD(_, _)
GCD(a, b) == IF b = 0 THEN a ELSE GCD(b, a % b)

\* n / d for d # 0.
Rat(n, d) ==
    LET g == GCD(Abs(n), Abs(d))
        sign == IF d < 0 THEN 0 - 1 ELSE 1
    IN  [n |-> (sign * n) \div g, d |-> (sign * d) \div g]

Zero == Rat(0, 1)

\* a + b on fractions.
RatPlus(a, b) == Rat(a.n * b.d + b.n * a.d, a.d * b.d)

RECURSIVE RatSum(_)
RatSum(rs) == IF rs = <<>> THEN Zero ELSE RatPlus(rs[1], RatSum(Tail(rs)))

---------------------------------------------------------------------------
(* The calendar of the metrics *)

\* The month before a month; January follows December of the year before.
LastMonthOf(m) ==
    IF m.month - 1 < 0 THEN [month |-> 11, year |-> m.year - 1]
    ELSE [month |-> m.month - 1, year |-> m.year]

\* new Date(year, month + 1, 0).getDate()
DaysInMonth(m) ==
    CASE m.month = 10 -> 30 [] m.month = 11 -> 31 [] m.month = 0 -> 31
      [] m.month = 1 -> 28

\* The days of the calendar above, and those of one month.
Calendar == (0 - 30)..89
DaysOf(m) == {d \in Calendar : MonthOf(d) = m}

\* The day a storage reads a transaction as being of:
\*   mem       the local calendar day of new Date(t.dateOnly), which
\*             setHours(0, 0, 0, 0), getMonth() and getFullYear() go by;
\*   date_only the day the date_only column holds;
\*   datetime  the local calendar day of the datetime column.
DayBy(column, t) ==
    CASE column = "mem" -> LocalDay(t.dateOnly.t)
      [] column = "date_only" -> t.dateOnly.t \div 24
      [] column = "datetime" -> LocalDay(t.dateTime.t)

\* The transactions of ts whose day is one of days, in their order. An
\* Invalid Date is of no day: its getTime() equals nothing.
OnDays(ts, column, days) ==
    SelectSeq(ts, LAMBDA t :
        /\ IF column = "datetime" THEN t.dateTime.valid ELSE t.dateOnly.valid
        /\ DayBy(column, t) \in days)

---------------------------------------------------------------------------
(* MemStorage metrics *)

\* The categories of a sequence of transactions in the order a Map gets
\* them as keys: by first occurrence.
RECURSIVE MapKeys(_)
MapKeys(ts) ==
    IF ts = <<>> THEN <<>>
    ELSE LET front == MapKeys(SubSeq(ts, 1, Len(ts) - 1))
             c == ts[Len(ts)].category
         IN  IF \E i \in 1..Len(front) : front[i] = c THEN front
             ELSE Append(front, c)

\* categoryTotals.get(category) after the loop over the transactions.
CategoryTotal(ts, c) == SumPrice(SelectSeq(ts, LAMBDA t : t.category = c))

\* As the forEach below, were every category to replace the one before.
RECURSIVE TopCategory_LastWins(_, _, _)
TopCategory_LastWins(ts, keys, top) ==
    IF keys = <<>> THEN top
    ELSE TopCategory_LastWins(ts, Tail(keys),
             [category |-> keys[1], amount |-> CategoryTotal(ts, keys[1])])

\* categoryTotals.forEach with `amount > topCategoryAmount`: the first of
\* the largest amounts wins, and nothing beats the initial 0 but a
\* positive amount.
RECURSIVE TopCategory(_, _, _)
TopCategory(ts, keys, top) ==
    IF keys = <<>> THEN top
    ELSE LET amount == CategoryTotal(ts, keys[1])
         IN  TopCategory(ts, Tail(keys),
                 IF amount > top.amount
                 THEN [category |-> keys[1], amount |-> amount] ELSE top)

\* ((value - reference) / reference) * factor when reference > 0, else 0;
\* value = valueN / valueD and reference = refN / refD.
Trend(valueN, valueD, refN, refD, factor) ==
    IF refN > 0
    THEN Rat((valueN * refD - refN * valueD) * factor, refN * valueD)
    ELSE Zero

\* As the percentage below, cut to a whole number.
Percentage_Truncated(part, whole) ==
    IF whole > 0 THEN Rat((part * 100) \div whole, 1) ELSE Zero

\* part / whole * 100 when whole > 0, else 0.
Percentage(part, whole) == IF whole > 0 THEN Rat(part * 100, whole) ELSE Zero

SpendingSummary(todayTotal, todayTrend, monthTotal, monthTrend, top, dailyAverage) ==
    [ok |-> TRUE, todayTotal |-> todayTotal, todayTrend |-> todayTrend,
     monthTotal |-> monthTotal, monthTrend |-> monthTrend,
     topCategory |-> top.category, topCategoryAmount |-> top.amount,
     topCategoryPercentage |-> Percentage(top.amount, monthTotal),
     dailyAverage |-> dailyAverage]

\* As MemStorage.getSpendingSummary, with lastMonthMonth = currentMonth - 1
\* and no step back to December.
MemGetSpendingSummary_NoDecember ==
    LET today == LocalDay(now)
        todayTotal == SumPrice(OnDays(transactions, "mem", {today}))
        weekTotal == SumPrice(OnDays(transactions, "mem", (today - 7)..(today - 1)))
        currentMonth == MonthOf(today)
        monthTransactions ==
            OnDays(transactions, "mem", DaysOf(currentMonth))
        monthTotal == SumPrice(monthTransactions)
        lastMonth == [month |-> currentMonth.month - 1, year |-> currentMonth.year]
        lastMonthTotal ==
            SumPrice(OnDays(transactions, "mem", DaysOf(lastMonth)))
    IN  {SpendingSummary(todayTotal,
                         Trend(todayTotal, 1, weekTotal, 7, 0 - 100),
                         monthTotal,
                         Trend(monthTotal, 1, lastMonthTotal, 1, 100),
                         TopCategory(monthTransactions, MapKeys(monthTransactions),
                                     [category |-> "None", amount |-> 0]),
                         Rat(monthTotal, DaysInMonth(currentMonth)))}

\* MemStorage.getSpendingSummary: the set of the results it can return (one).
MemGetSpendingSummary ==
    LET today == LocalDay(now)
        todayTotal == SumPrice(OnDays(transactions, "mem", {today}))
        \* the sum of dailyAmounts, over lastWeek = today - 1 .. today - 7
        weekTotal == SumPrice(OnDays(transactions, "mem", (today - 7)..(today - 1)))
        currentMonth == MonthOf(today)
        monthTransactions ==
            OnDays(transactions, "mem", DaysOf(currentMonth))
        monthTotal == SumPrice(monthTransactions)
        lastMonth == LastMonthOf(currentMonth)
        lastMonthTotal ==
            SumPrice(OnDays(transactions, "mem", DaysOf(lastMonth)))
    IN  {SpendingSummary(todayTotal,
                         \* avgDailySpending = weekTotal / lastWeek.length
                         Trend(todayTotal, 1, weekTotal, 7, 0 - 100),
                         monthTotal,
                         Trend(monthTotal, 1, lastMonthTotal, 1, 100),
                         TopCategory(monthTransactions, MapKeys(monthTransactions),
                                     [category |-> "None", amount |-> 0]),
                         Rat(monthTotal, DaysInMonth(currentMonth)))}

CategoryEntry(category, total, totalSpending) ==
    [category |-> category, total |-> total,
     percentage |-> Percentage(total, totalSpending)]

\* The comparator of the category summary's sort and the stable sort by it.
RECURSIVE InsertByTotal(_, _)
InsertByTotal(sorted, x) ==
    IF sorted = <<>> THEN <<x>>
    ELSE LET last == sorted[Len(sorted)]
         IN  IF x.total - last.total > 0
             THEN Append(InsertByTotal(SubSeq(sorted, 1, Len(sorted) - 1), x), last)
             ELSE Append(sorted, x)

RECURSIVE SortByTotal(_)
SortByTotal(a) ==
    IF a = <<>> THEN <<>>
    ELSE InsertByTotal(SortByTotal(SubSeq(a, 1, Len(a) - 1)), a[Len(a)])

\* As MemStorage.getCategorySummary, returning categorySummary unsorted.
MemGetCategorySummary_Unsorted ==
    LET currentMonth == MonthOf(LocalDay(now))
        monthTransactions ==
            OnDays(transactions, "mem", DaysOf(currentMonth))
        totalSpending == SumPrice(monthTransactions)
        keys == MapKeys(monthTransactions)
        categorySummary ==
            [i \in 1..Len(keys) |->
                CategoryEntry(keys[i], CategoryTotal(monthTransactions, keys[i]),
                              totalSpending)]
    IN  {[ok |-> TRUE, entries |-> categorySummary]}

\* MemStorage.getCategorySummary
MemGetCategorySummary ==
    LET currentMonth == MonthOf(LocalDay(now))
        monthTransactions ==
            OnDays(transactions, "mem", DaysOf(currentMonth))
        totalSpending == SumPrice(monthTransactions)
        keys == MapKeys(monthTransactions)
        categorySummary ==
            [i \in 1..Len(keys) |->
                CategoryEntry(keys[i], CategoryTotal(monthTransactions, keys[i]),
                              totalSpending)]
    IN  {[ok |-> TRUE, entries |-> SortByTotal(categorySummary)]}

\* As the operation below, were a day's transactions taken by dateTime.
MemGetDailySpending_ByDateTime(days) ==
    IF days.k # "num" \/ days.v < 0 THEN {Thrown}
    ELSE LET today == LocalDay(now)
             date(i) == today - (days.v - 1 - i)
         IN  {[ok |-> TRUE,
               entries |->
                   [j \in 1..days.v |->
                       [date |-> date(j - 1),
                        total |-> SumPrice(OnDays(transactions, "datetime",
                                                  {date(j - 1)}))]]]}

\* MemStorage.getDailySpending(undefined, days): new Array(days) throws a
\* RangeError unless days is an integer >= 0.
MemGetDailySpending(days) ==
    IF days.k # "num" \/ days.v < 0 THEN {Thrown}
    ELSE LET today == LocalDay(now)
             date(i) == today - (days.v - 1 - i)
         IN  {[ok |-> TRUE,
               entries |->
                   [j \in 1..days.v |->
                       [date |-> date(j - 1),
                        total |-> SumPrice(OnDays(transactions, "mem", {date(j - 1)}))]]]}

---------------------------------------------------------------------------
(* DbStorage metrics *)

\* The groups of GROUP BY date_only and of GROUP BY category.
DateGroups(rows) == {DayBy("date_only", rows[i]) : i \in 1..Len(rows)}
CategoryGroups(rows) == {rows[i].category : i \in 1..Len(rows)}

\* The arrangements of a set of entries by total, largest first; entries
\* with equal totals come in any order.
ByTotalDesc(entries) ==
    LET n == Cardinality(entries)
    IN  {f \in [1..n -> entries] :
            /\ \A i, j \in 1..n : i # j => f[i] # f[j]
            /\ \A i \in 1..(n - 1) : f[i].total >= f[i + 1].total}

\* DbStorage.getSpendingSummary: the set of the results it can return.
DbGetSpendingSummary ==
    LET today == LocalDay(now)
        \* datetime between startOfToday and endOfToday
        todayTotal == SumPrice(OnDays(transactions, "datetime", {today}))
        \* datetime between lastWeekStart and yesterdayEnd, grouped by
        \* DATE(date_only); AVG(daily_sum) is the sum over the number of
        \* groups
        weekRows == OnDays(transactions, "datetime", (today - 7)..(today - 1))
        weekDays == Cardinality(DateGroups(weekRows))
        currentMonth == MonthOf(today)
        monthRows == OnDays(transactions, "date_only", DaysOf(currentMonth))
        monthTotal == SumPrice(monthRows)
        lastMonthTotal ==
            SumPrice(OnDays(transactions, "date_only",
                            DaysOf(LastMonthOf(currentMonth))))
        sums == {[category |-> c, total |-> CategoryTotal(monthRows, c)] :
                    c \in CategoryGroups(monthRows)}
        \* topCategoryResult[0] of ORDER BY sum DESC LIMIT 1
        tops == IF sums = {} THEN {[category |-> "None", amount |-> 0]}
                ELSE {[category |-> f[1].category, amount |-> f[1].total] :
                         f \in ByTotalDesc(sums)}
    IN  {SpendingSummary(todayTotal,
                         Trend(todayTotal, 1, SumPrice(weekRows), weekDays, 0 - 100),
                         monthTotal,
                         Trend(monthTotal, 1, lastMonthTotal, 1, 100),
                         top,
                         Rat(monthTotal, DaysInMonth(currentMonth))) : top \in tops}

\* DbStorage.getCategorySummary
DbGetCategorySummary ==
    LET currentMonth == MonthOf(LocalDay(now))
        monthRows == OnDays(transactions, "date_only", DaysOf(currentMonth))
        totalSpending == SumPrice(monthRows)
        categoryResults ==
            ByTotalDesc({[category |-> c, total |-> CategoryTotal(monthRows, c)] :
                            c \in CategoryGroups(monthRows)})
    IN  {[ok |-> TRUE,
          entries |-> [i \in 1..Len(f) |->
                          CategoryEntry(f[i].category, f[i].total, totalSpending)]] :
            f \in categoryResults}

\* DbStorage.getDailySpending(undefined, days): format throws a RangeError
\* on the Invalid Date that subDays(today, NaN) is.
DbGetDailySpending(days) ==
    IF days.k # "num" THEN {Thrown}
    ELSE LET today == LocalDay(now)
             \* date_only between formattedStartDate and formattedEndDate,
             \* grouped by date_only
             window == OnDays(transactions, "date_only",
                              (today - (days.v - 1))..today)
             \* format(new Date(entry.date), 'yyyy-MM-dd'): the local day of
             \* midnight UTC of the day of the group
             Formatted(day) == LocalDay(day * 24)
             date(i) == today - (days.v - 1 - i)
             Found(i) == {g \in DateGroups(window) : Formatted(g) = date(i)}
             total(i) ==
                 IF Found(i) = {} THEN 0
                 ELSE LET g == CHOOSE x \in Found(i) : TRUE
                      IN  SumPrice(OnDays(window, "date_only", {g}))
         IN  {[ok |-> TRUE,
               entries |->
                   [j \in 1..(IF days.v < 0 THEN 0 ELSE days.v) |->
                       [date |-> date(j - 1), total |-> total(j - 1)]]]}

getSpendingSummary ==
    IF backend = "mem" THEN MemGetSpendingSummary
    ELSE IF Unreachable THEN {Thrown}
    ELSE DbGetSpendingSummary

getCategorySummary ==
    IF backend = "mem" THEN MemGetCategorySummary
    ELSE IF Unreachable THEN {Thrown}
    ELSE DbGetCategorySummary

getDailySpending(days) ==
    IF backend = "mem" THEN MemGetDailySpending(days)
    ELSE IF Unreachable THEN {Thrown}
    ELSE DbGetDailySpending(days)

---------------------------------------------------------------------------
(* GET /api/metrics/summary, /categories and /daily *)

\* As the response below, were the text of the error sent to the caller.
MetricsResponse_SendsError(op, req, result, message) ==
    IF ~result.ok
    THEN [op |-> op, status |-> 500, req |-> req, message |-> message,
          error |-> "connect ECONNREFUSED"]
    ELSE [op |-> op, status |-> 200, req |-> req, body |-> result]

MetricsResponse(op, req, result, message) ==
    IF ~result.ok
    THEN [op |-> op, status |-> 500, req |-> req, message |-> message]
    ELSE [op |-> op, status |-> 200, req |-> req, body |-> result]

GetSummary ==
    /\ \E summary \in getSpendingSummary :
          res' = MetricsResponse("summary", [days |-> Absent], summary,
                                 "Failed to fetch spending summary")
    /\ UNCHANGED <<backend, transactions, now, tz, hist, edited, edits, pending, table, form>>

GetCategories ==
    /\ \E categorySummary \in getCategorySummary :
          res' = MetricsResponse("categories", [days |-> Absent], categorySummary,
                                 "Failed to fetch category summary")
    /\ UNCHANGED <<backend, transactions, now, tz, hist, edited, edits, pending, table, form>>

GetDaily(daysParam) ==
    LET days == IF Truthy(daysParam) THEN parseInt(daysParam.s) ELSE Num(7)
    IN  /\ \E dailySpending \in getDailySpending(days) :
              res' = MetricsResponse("daily", [days |-> daysParam], dailySpending,
                                     "Failed to fetch daily spending")
        /\ UNCHANGED <<backend, transactions, now, tz, hist, edited, edits, pending, table, form>>

---------------------------------------------------------------------------
(* The requests the model sends to the metrics routes, and the server     *)
(* that answers them along with lists, lookups and edits                  *)

DaysInputs ==
    {Absent, Str(<<"1">>), Str(<<"2">>), Str(<<"3">>), Str(<<"0">>),
     Str(<<"-", "1">>), Str(<<"x">>)}

\* Edits that move a transaction to another day, price and category.
MoveBodies ==
    {Body(JUndefined, JNumber(2000), JString(<<"a">>),
          JString(LocalDateTimeText(Today, 10)), JString(DateText(Today)),
          JString("Petrol"), JUndefined),
     Body(JUndefined, JNumber(2000), JString(<<"a">>),
          JString(LocalDateTimeText(Today - 1, 23)), JString(DateText(Today - 1)),
          JString("Petrol"), JUndefined),
     Body(JUndefined, JNumber(2000), JString(<<"a">>),
          JString(LocalDateTimeText(Today, 10)), JString(DateText(Today - 1)),
          JString("Petrol"), JUndefined)}

MoveIds == {<<"1">>, <<"2">>, <<"9">>}

\* The first pages of the whole list, one transaction a page.
FewQueries ==
    {Query(Absent, Absent, Absent, Absent, p, Str(<<"1">>)) :
        p \in {Absent, Str(<<"2">>)}}

RequestSummary == res = NoResponse /\ GetSummary

RequestCategories == res = NoResponse /\ GetCategories

RequestDaily == res = NoResponse /\ \E daysParam \in DaysInputs : GetDaily(daysParam)

RequestPage == SendList(FewQueries)

RequestMove == SendUpdate(MoveIds, MoveBodies)

NextMetrics ==
    \/ RequestSummary
    \/ RequestCategories
    \/ RequestDaily
    \/ RequestPage
    \/ RequestGet
    \/ RequestMove
    \/ Receive

SpecMetrics == InitMetrics /\ [][NextMetrics]_vars

---------------------------------------------------------------------------
(* What the store and the metrics are specified to be *)

\* The ids the seeding assigns.
SeededIds == 1..NumSeed

\* C11: whatever lists, lookups, edits and summaries were served, the ids in
\* the store are the ids present after seeding, each on exactly one
\* transaction: none is created, none deleted.
C11_IdsAreTheSeededIds ==
    /\ {transactions[i].id : i \in 1..Len(transactions)} = SeededIds
    /\ \A i, j \in 1..Len(transactions) :
           transactions[i].id = transactions[j].id => i = j

C11_Witness ==
    /\ edits = MaxEdits /\ edited.on
    /\ res.op = "summary" /\ res.status = 200
    /\ \A i \in 1..Len(transactions) : transactions[i].category = "Petrol"

\* The calendar day of a stored dateOnly: the local day of the Date a
\* MemStorage holds, the day of the date_only column of a DbStorage.
DayOfDateOnly(t) == DayBy(IF backend = "mem" THEN "mem" ELSE "date_only", t)

\* C12: in every state of the store, after seeding and after every edit,
\* the dateOnly of each transaction is the calendar date of its dateTime.
C12_DateOnlyIsDateOfDateTime ==
    \A i \in 1..Len(transactions) :
        /\ transactions[i].dateTime.valid /\ transactions[i].dateOnly.valid
        /\ DayOfDateOnly(transactions[i]) = LocalDay(transactions[i].dateTime.t)

\* C13: a lookup of an id the store does not hold is answered 404, and so is
\* an update with a valid payload for such an id, which leaves the store as
\* it was (the storage update is not reached: it would fail, and the answer
\* would be 500).
C13_MissingIdIsNotFound ==
    [][/\ (res'.op = "get" /\ parseInt(res'.req.id).k = "num"
             /\ ~getTransaction(parseInt(res'.req.id).v).found)
          => /\ res'.status = 404
             /\ res'.message = "Transaction not found"
       /\ (UpdateAnswered(res') /\ ValidEdit(res'.req.body)
             /\ ~getTransaction(parseInt(res'.req.id).v).found)
          => /\ res'.status = 404
             /\ res'.message = "Transaction not found"
             /\ transactions' = transactions]_vars

C13_Witness ==
    /\ res.op = "update" /\ res.status = 404
    /\ res.req.id = <<"9">>
    /\ ValidEdit(res.req.body)
    /\ edited.on

\* The transactions whose dateOnly is one of days, and the sum of their
\* prices.
DatedOn(days) ==
    SelectSeq(transactions,
              LAMBDA t : t.dateOnly.valid /\ DayOfDateOnly(t) \in days)

SpentOn(days) == SumPrice(DatedOn(days))

SummaryOk == res.op = "summary" /\ res.status = 200

\* C14: todayTrend is ((todayTotal - avg) / avg) * -100, avg being the total
\* of the 7 calendar days before today divided by 7, and 0 when avg is 0; a
\* today below the average gives a positive todayTrend.
C14_TodayTrendAgainstSevenDayAverage ==
    SummaryOk =>
        LET today == LocalDay(now)
            todayTotal == SpentOn({today})
            weekTotal == SpentOn((today - 7)..(today - 1))
        IN  /\ res.body.todayTrend =
                   IF weekTotal = 0 THEN Zero
                   ELSE Rat((todayTotal * 7 - weekTotal) * (0 - 100), weekTotal)
            /\ (weekTotal > 0 /\ todayTotal * 7 < weekTotal)
               => res.body.todayTrend.n > 0

\* C15: monthTotal is the sum of price over the transactions whose dateOnly
\* is in the current calendar month, monthTrend is ((monthTotal -
\* lastMonthTotal) / lastMonthTotal) * 100 with lastMonthTotal the same sum
\* for the month before (December of the year before, in January), and
\* monthTrend is 0 when lastMonthTotal is 0.
C15_MonthTotalAndTrend ==
    SummaryOk =>
        LET thisMonth == MonthOf(LocalDay(now))
            monthBefore ==
                IF thisMonth.month = 0
                THEN [month |-> 11, year |-> thisMonth.year - 1]
                ELSE [month |-> thisMonth.month - 1, year |-> thisMonth.year]
            monthTotal == SpentOn({d \in Calendar : MonthOf(d) = thisMonth})
            lastMonthTotal == SpentOn({d \in Calendar : MonthOf(d) = monthBefore})
        IN  /\ res.body.monthTotal = monthTotal
            /\ res.body.monthTrend =
                   IF lastMonthTotal = 0 THEN Zero
                   ELSE Rat((monthTotal - lastMonthTotal) * 100, lastMonthTotal)

\* A summary asked for in January, with spending in December and a
\* different spending in January.
C15_Witness ==
    /\ SummaryOk /\ backend = "mem"
    /\ MonthOf(LocalDay(now)) = [month |-> 0, year |-> 2025]
    /\ res.body.monthTotal = 2000
    /\ res.body.monthTrend = Rat(100, 1)

\* C16: topCategory is a category whose summed price within the current
\* month is the largest of all, topCategoryAmount is that sum and
\* topCategoryPercentage is topCategoryAmount / monthTotal * 100; with no
\* transaction in the month they are "None", 0 and 0.
C16_TopCategoryIsLargest ==
    SummaryOk =>
        LET inMonth == DatedOn({d \in Calendar : MonthOf(d) = MonthOf(LocalDay(now))})
            Sum(c) == SumPrice(SelectSeq(inMonth, LAMBDA t : t.category = c))
        IN  IF inMonth = <<>>
            THEN /\ res.body.topCategory = "None"
                 /\ res.body.topCategoryAmount = 0
                 /\ res.body.topCategoryPercentage = Zero
            ELSE /\ \E i \in 1..Len(inMonth) :
                        inMonth[i].category = res.body.topCategory
                 /\ res.body.topCategoryAmount = Sum(res.body.topCategory)
                 /\ \A c \in Categories : Sum(c) <= res.body.topCategoryAmount
                 /\ res.body.topCategoryPercentage =
                        Rat(res.body.topCategoryAmount * 100, SumPrice(inMonth))

\* Two categories in the month; the larger is not the first one met.
C16_Witness ==
    /\ SummaryOk /\ backend = "mem"
    /\ transactions[1].category = "Rent" /\ transactions[2].category = "Food"
    /\ res.body.monthTotal = 3000
    /\ res.body.topCategory = "Rent"
    /\ res.body.topCategoryPercentage = Rat(200, 3)

\* No transaction in the month.
C16_WitnessNone ==
    SummaryOk /\ res.body.topCategory = "None" /\ res.body.monthTotal = 0

CategoriesOk == res.op = "categories" /\ res.status = 200

\* C17: the category summary has exactly one entry for each category with a
\* transaction in the current calendar month and none for any other, each
\* entry's total is the sum of price of the category's transactions in the
\* month, and the totals do not increase along the list.
C17_CategorySummaryEntries ==
    CategoriesOk =>
        LET inMonth == DatedOn({d \in Calendar : MonthOf(d) = MonthOf(LocalDay(now))})
            entries == res.body.entries
        IN  /\ \A i, j \in 1..Len(entries) :
                   entries[i].category = entries[j].category => i = j
            /\ {entries[i].category : i \in 1..Len(entries)}
                   = {inMonth[i].category : i \in 1..Len(inMonth)}
            /\ \A i \in 1..Len(entries) :
                   entries[i].total =
                       SumPrice(SelectSeq(inMonth,
                                    LAMBDA t : t.category = entries[i].category))
            /\ \A i \in 1..(Len(entries) - 1) : entries[i].total >= entries[i + 1].total

\* Two categories in the month, the one met first with the smaller total.
C17_Witness ==
    /\ CategoriesOk /\ backend = "mem"
    /\ transactions[1].category = "Food" /\ transactions[2].category = "Rent"
    /\ Len(res.body.entries) = 2
    /\ res.body.entries[1].category = "Rent"
    /\ res.body.entries[1].total > res.body.entries[2].total

RECURSIVE SumTotals(_)
SumTotals(entries) ==
    IF entries = <<>> THEN 0 ELSE entries[1].total + SumTotals(Tail(entries))

\* C18: for the same store and the same current date, the totals of the
\* category summary's entries sum to the monthTotal of the spending summary,
\* and their percentages sum to 100 when monthTotal is greater than 0. The
\* sums are those of the exact quotients: the code's floating-point sums
\* come within rounding of them (10 and 20 of 30 give 99.99999999999999).
C18_CategoryTotalsSumToMonthTotal ==
    CategoriesOk =>
        \A summary \in getSpendingSummary :
            /\ SumTotals(res.body.entries) = summary.monthTotal
            /\ summary.monthTotal > 0 =>
                   RatSum([i \in 1..Len(res.body.entries) |->
                              res.body.entries[i].percentage]) = Rat(100, 1)

\* Two entries whose percentages are no whole numbers.
C18_Witness ==
    /\ CategoriesOk
    /\ Len(res.body.entries) = 2
    /\ res.body.entries[1].percentage = Rat(200, 3)
    /\ res.body.entries[2].percentage = Rat(100, 3)

\* The window length a daily request asks for (7 when it names none).
DaysAsked(r) == IF Truthy(r.req.days) THEN parseInt(r.req.days.s) ELSE Num(7)

\* C19: for a window of days >= 1 the daily series has exactly days entries,
\* dated the consecutive calendar days that end today, in ascending order;
\* the total of each is the sum of price of the transactions whose dateOnly
\* is that date, 0 when there is none.
C19_DailySeriesIsZeroFilled ==
    (res.op = "daily" /\ DaysAsked(res).k = "num" /\ DaysAsked(res).v >= 1) =>
        LET days == DaysAsked(res).v
            today == LocalDay(now)
        IN  /\ res.status = 200
            /\ Len(res.body.entries) = days
            /\ \A j \in 1..days :
                  /\ res.body.entries[j].date = today - (days - j)
                  /\ res.body.entries[j].total = SpentOn({today - (days - j)})

---------------------------------------------------------------------------
(* PUT /api/transactions/:id, two requests handled side by side: a handler *)
(* gives way to the other at each await                                    *)

\* Payloads of side-by-side edits: they differ in every mutable field.
ConcurrentBodies ==
    {Body(JUndefined, JNumber(1000), JString(<<"a">>),
          JString(LocalDateTimeText(Today, 10)), JString(DateText(Today)),
          JString("Food"), JUndefined),
     Body(JUndefined, JNumber(2000), JString(<<"b">>),
          JString(LocalDateTimeText(Today - 1, 23)), JString(DateText(Today - 1)),
          JString("Petrol"), JUndefined),
     Body(JUndefined, JNumber(0), JString(<<"a">>),
          JString(LocalDateTimeText(Today, 10)), JString(DateText(Today)),
          JString("Food"), JUndefined)}

ConcurrentIds == {<<"1">>, <<"2">>, <<"9">>}

\* A handler that has just been called.
Handler(idParam, body) ==
    [idParam |-> idParam, body |-> body, pc |-> "lookup", order |-> 0,
     transaction |-> NotFound, response |-> NoResponse]

\* Two requests arrive together.
Arrive ==
    /\ pending = <<>> /\ res = NoResponse
    /\ edits + 2 <= MaxEdits
    /\ \E id1 \in ConcurrentIds, id2 \in ConcurrentIds,
          body1 \in ConcurrentBodies, body2 \in ConcurrentBodies :
          pending' = <<Handler(id1, body1), Handler(id2, body2)>>
    /\ edits' = edits + 2
    /\ UNCHANGED <<backend, transactions, now, tz, res, hist, edited, table, form>>

\* From the call to the first await: the id and the payload are parsed and
\* storage.getTransaction is asked for the transaction.
LookedUp(h) ==
    LET id == parseInt(h.idParam)
        req == [id |-> h.idParam, body |-> h.body]
        issues == editTransactionSchema(WithId(id.v, h.body))
        transaction == getTransaction(id.v)
    IN  IF id.k = "nan"
        THEN [h EXCEPT !.pc = "respond",
                       !.response = [op |-> "update", status |-> 400, req |-> req,
                                     message |-> "Invalid transaction ID"]]
        ELSE IF issues # {}
        THEN [h EXCEPT !.pc = "respond",
                       !.response = [op |-> "update", status |-> 400, req |-> req,
                                     message |-> "Validation error",
                                     errors |-> issues]]
        ELSE IF ~transaction.found
        THEN [h EXCEPT !.pc = "respond",
                       !.response = [op |-> "update", status |-> 404, req |-> req,
                                     message |-> "Transaction not found"]]
        ELSE [h EXCEPT !.pc = "update", !.transaction = transaction]

\* As the update below, were it to write only when the stored transaction
\* is still the one the lookup returned.
HandlerUpdate_UnlessChanged(h) ==
    LET id == parseInt(h.idParam)
        out == updateTransaction(id.v, WithId(id.v, h.body))
    IN  IF getTransaction(id.v) = h.transaction THEN out
        ELSE [out EXCEPT !.store = transactions]

\* storage.updateTransaction(id, data), from the call to its result.
HandlerUpdate(h) ==
    LET id == parseInt(h.idParam)
    IN  updateTransaction(id.v, WithId(id.v, h.body))

\* The number of updates the handlers have made.
UpdatesMade == Cardinality({i \in 1..Len(pending) : pending[i].order > 0})

Lookup(i) ==
    /\ pending[i].pc = "lookup"
    /\ pending' = [pending EXCEPT ![i] = LookedUp(pending[i])]
    /\ UNCHANGED <<backend, transactions, now, tz, res, hist, edited, edits, table, form>>

Update(i) ==
    /\ pending[i].pc = "update"
    /\ LET h == pending[i]
           req == [id |-> h.idParam, body |-> h.body]
           updatedTransaction == HandlerUpdate(h)
       IN  /\ transactions' = updatedTransaction.store
           /\ pending' =
                  [pending EXCEPT ![i] =
                      [h EXCEPT
                          !.pc = "respond",
                          !.order = UpdatesMade + 1,
                          !.response =
                              IF updatedTransaction.ok
                              THEN [op |-> "update", status |-> 200, req |-> req,
                                    body |-> updatedTransaction.value]
                              ELSE [op |-> "update", status |-> 500, req |-> req,
                                    message |-> "Failed to update transaction"]]]
    /\ UNCHANGED <<backend, now, tz, res, hist, edited, edits, table, form>>

Respond(i) ==
    /\ pending[i].pc = "respond"
    /\ res = NoResponse
    /\ res' = pending[i].response
    /\ pending' = [pending EXCEPT ![i].pc = "done"]
    /\ UNCHANGED <<backend, transactions, now, tz, hist, edited, edits, table, form>>

NextConcurrent ==
    \/ Arrive
    \/ \E i \in 1..Len(pending) : Lookup(i)
    \/ \E i \in 1..Len(pending) : Update(i)
    \/ \E i \in 1..Len(pending) : Respond(i)
    \/ Receive

SpecConcurrent == InitEdit /\ [][NextConcurrent]_vars

\* The mutable fields of a stored transaction are those of a payload.
CarriesPayload(t, body) ==
    /\ t.price = body.price.v
    /\ t.items = body.items.s
    /\ t.dateTime = NewDate(body.dateTime.s)
    /\ t.dateOnly = NewDate(body.dateOnly.s)
    /\ t.category = body.category.s

\* Two valid updates of one stored id have both run their update step.
BothUpdated ==
    /\ Len(pending) = 2
    /\ pending[1].idParam = pending[2].idParam
    /\ getTransaction(parseInt(pending[1].idParam).v).found
    /\ \A i \in {1, 2} : ValidEdit(pending[i].body)
                          /\ pending[i].pc \in {"respond", "done"}

\* C20: of two valid updates of the same stored id handled side by side, in
\* whatever order their lookups and updates ran, both succeed, and the
\* stored transaction carries the five mutable fields of the payload whose
\* update ran last: the fields of the two are never mixed.
C20_LastWriteWins ==
    BothUpdated =>
        LET last == CHOOSE i \in {1, 2} : pending[i].order = 2
            stored == getTransaction(parseInt(pending[1].idParam).v).value
        IN  /\ \A i \in {1, 2} : pending[i].response.status = 200
            /\ {pending[i].order : i \in {1, 2}} = {1, 2}
            /\ CarriesPayload(stored, pending[last].body)
            /\ stored = pending[last].response.body

\* The second request updated first, the first one last, with another
\* payload; both have answered.
C20_Witness ==
    /\ BothUpdated
    /\ pending[1].order = 2 /\ pending[2].order = 1
    /\ pending[1].body # pending[2].body
    /\ pending[1].pc = "done" /\ pending[2].pc = "done"
    /\ CarriesPayload(getTransaction(parseInt(pending[1].idParam).v).value,
                      pending[1].body)

---------------------------------------------------------------------------
(* What the two storages are specified to share, and what reads are       *)
(* specified to leave alone                                                *)

\* C21: over the same transactions at the same time MemStorage and
\* DbStorage compute the same todayTotal and the same todayTrend (the same
\* average of the 7 days before today), also when some of those days have
\* no transaction. Stated at UTC, where a stored dateOnly reads the same in
\* both, against the summary just answered.
C21_StoragesAgreeOnTodayTrend ==
    (SummaryOk /\ tz = 0) =>
        \A m \in MemGetSpendingSummary, d \in DbGetSpendingSummary :
            /\ m.todayTotal = res.body.todayTotal
            /\ d.todayTotal = res.body.todayTotal
            /\ m.todayTrend = res.body.todayTrend
            /\ d.todayTrend = res.body.todayTrend

-----------------------------------------------------------------------------
(* The server while its database comes and goes *)

InitOutage == StartWith("plain", {0}, StartInstants)

\* The connection to the database is lost: from now on every query rejects.
Outage ==
    /\ res = NoResponse
    /\ backend = "db"
    /\ backend' = "down"
    /\ UNCHANGED <<transactions, now, tz, res, hist, edited, edits, pending, table, form>>

\* The connection is back; the rows are what they were.
Restore ==
    /\ res = NoResponse
    /\ backend = "down"
    /\ backend' = "db"
    /\ UNCHANGED <<transactions, now, tz, res, hist, edited, edits, pending, table, form>>

NextOutage ==
    \/ Outage
    \/ Restore
    \/ RequestPage
    \/ RequestGet
    \/ RequestMove
    \/ RequestSummary
    \/ RequestCategories
    \/ RequestDaily
    \/ Receive

SpecOutage == InitOutage /\ [][NextOutage]_vars

\* The one message each operation answers a failure with.
GenericMessage(op) ==
    CASE op = "list" -> "Failed to fetch transactions"
      [] op = "get" -> "Failed to fetch transaction"
      [] op = "update" -> "Failed to update transaction"
      [] op = "summary" -> "Failed to fetch spending summary"
      [] op = "categories" -> "Failed to fetch category summary"
      [] op = "daily" -> "Failed to fetch daily spending"

\* The request answered in this step was refused before any storage call.
RefusedBeforeStorage(response) ==
    /\ response.status = 400
    /\ response.op \in {"get", "update"}
    /\ response.message \in {"Invalid transaction ID", "Validation error"}

\* C22: for every operation, a storage call that throws is answered with
\* status 500 and a body that holds the operation's fixed message and nothing
\* else (the response's fields besides the status are the message and the
\* model's record of the operation and its request); the request is answered
\* once, and the store is as it was before the request.
C22_StorageFailureIsGeneric ==
    [][ /\ (res = NoResponse /\ res' # NoResponse /\ Unreachable)
            => (res'.status = 500 \/ RefusedBeforeStorage(res'))
        /\ (res = NoResponse /\ res' # NoResponse /\ res'.status = 500)
            => /\ DOMAIN res' = {"op", "status", "req", "message"}
               /\ res'.message = GenericMessage(res'.op)
               /\ transactions' = transactions
      ]_vars

C22_Witness ==
    /\ Unreachable
    /\ res.op = "update" /\ res.status = 500
    /\ edited.on
    /\ \E i \in 1..Len(transactions) : transactions[i].category = "Petrol"

-----------------------------------------------------------------------------
(* What the orders of the list are specified to be *)

Reverse(s) == [i \in 1..Len(s) |-> s[Len(s) + 1 - i]]

PricesOf(ts) == [i \in 1..Len(ts) |-> ts[i].price]

ElementsOf(ts) == {ts[i] : i \in 1..Len(ts)}

\* The response holds the whole result of its query on one page.
WholeResult ==
    /\ ListOk /\ WellFormedPaging(res.req)
    /\ res.pagination.page = Num(1)
    /\ Len(res.transactions) = res.pagination.total

\* The request of the response, with another sortBy.
Reordered(sortBy) == ListFilters([res.req EXCEPT !.sortBy = sortBy])

\* C23: the whole result by price:asc is the reverse of the whole result by
\* price:desc for the same store and filters, up to the order of transactions
\* of equal price: the same transactions, and the prices read in reverse.
C23_PriceAscIsReverseOfDesc ==
    (WholeResult /\ res.req.sortBy = Str(<<"price", ":", "asc">>)) =>
        \A desc \in getTransactions(Reordered(Str(<<"price", ":", "desc">>))) :
            /\ desc.ok
            /\ ElementsOf(desc.transactions) = ElementsOf(res.transactions)
            /\ PricesOf(desc.transactions) = Reverse(PricesOf(res.transactions))

C23_Witness ==
    /\ WholeResult /\ res.req.sortBy = Str(<<"price", ":", "asc">>)
    /\ Len(res.transactions) = NumSeed
    /\ res.transactions[1].price < res.transactions[NumSeed].price

\* ts holds the newest dateTime first.
NewestFirst(ts) ==
    \A i \in 1..(Len(ts) - 1) :
        /\ ts[i].dateTime.valid /\ ts[i + 1].dateTime.valid
        /\ ts[i].dateTime.t >= ts[i + 1].dateTime.t

\* The page and the count a list response was built from.
ResultOf(response) ==
    [ok |-> TRUE, transactions |-> response.transactions,
     totalCount |-> response.pagination.total]

\* C24: without a sortBy the transactions come with the newest dateTime
\* first, and the request is answered as the same request with
\* sortBy = date:desc is: the storage gives the two the same result (on
\* DbStorage, where rows of equal datetime come in any order, the same
\* possible results).
C24_DefaultOrderIsDateDesc ==
    (ListOk /\ ~Truthy(res.req.sortBy)) =>
        LET dateDesc == getTransactions(Reordered(Str(<<"date", ":", "desc">>)))
        IN  /\ NewestFirst(res.transactions)
            /\ ResultOf(res) \in dateDesc
            /\ getTransactions(ListFilters(res.req)) = dateDesc
            /\ backend = "mem" => dateDesc = {ResultOf(res)}

\* Both transactions on one page, the newer one stored second.
C24_Witness ==
    /\ ListOk /\ ~Truthy(res.req.sortBy)
    /\ Len(res.transactions) = NumSeed
    /\ res.transactions[1].dateTime.t > res.transactions[NumSeed].dateTime.t
    /\ res.transactions[1].id > res.transactions[NumSeed].id

-----------------------------------------------------------------------------
(* The client's EditTransactionDialog *)

\* format(date, "yyyy-MM-dd'T'HH:mm") and format(date, "yyyy-MM-dd") of
\* date-fns, in the browser's time zone (here the server's).
FormatDateTime(d) == LocalDateTimeText(LocalDay(d.t), (d.t + tz) % 24)
FormatDate(d) == DateText(LocalDay(d.t))

\* `${data.id}`: the decimal text of an id below ten.
IdText(id) == <<CHOOSE c \in DigitChars : DigitVal(c) = id>>

\* form.reset with the values of the transaction the dialog is opened on
\* (one whose dates are dates: format throws on an Invalid Date).
FormOf(transaction) ==
    [open |-> TRUE, id |-> transaction.id, price |-> transaction.price,
     items |-> transaction.items,
     dateTime |-> FormatDateTime(transaction.dateTime),
     dateOnly |-> FormatDate(transaction.dateOnly),
     category |-> transaction.category]

\* handleEdit on a row of the table, and the effect that resets the form.
OpenDialog ==
    /\ res = NoResponse
    /\ ~form.open
    /\ \E i \in 1..Len(transactions) :
          /\ transactions[i].dateTime.valid /\ transactions[i].dateOnly.valid
          /\ form' = FormOf(transactions[i])
    /\ UNCHANGED <<backend, transactions, now, tz, res, hist, edited, edits,
                   pending, table>>

\* What the date-time input can hand to its onChange: a complete local date
\* and time, or the empty text of a cleared or incomplete input.
DialogDateTimeInputs ==
    {LocalDateTimeText(Today, 10), LocalDateTimeText(Today - 1, 23), NoDateText}

\* handleDateTimeChange: the form after the input changed to value. dateTime
\* is set first; format then throws on an Invalid Date and dateOnly stays.
handleDateTimeChange(value) ==
    LET dateTime == NewDate(value)
    IN  IF dateTime.valid
        THEN [form EXCEPT !.dateTime = value, !.dateOnly = FormatDate(dateTime)]
        ELSE [form EXCEPT !.dateTime = value]

ChangeDateTime ==
    /\ res = NoResponse
    /\ form.open
    /\ \E value \in DialogDateTimeInputs : form' = handleDateTimeChange(value)
    /\ UNCHANGED <<backend, transactions, now, tz, res, hist, edited, edits,
                   pending, table>>

\* The payload the form submits: its values as they are.
FormData ==
    Body(JNumber(form.id), JNumber(form.price), JString(form.items),
         JString(form.dateTime), JString(form.dateOnly), JString(form.category),
         JUndefined)

\* form.handleSubmit(onSubmit): when the resolver accepts the values, the
\* mutation sends PUT /api/transactions/${data.id}.
SubmitDialog ==
    /\ res = NoResponse
    /\ form.open
    /\ edits < MaxEdits
    /\ editTransactionSchema(WithId(form.id, FormData)) = {}
    /\ UpdateTransaction(IdText(form.id), FormData)

\* The mutation settles: onSuccess closes the dialog, onError leaves it open.
DialogSettled ==
    /\ res.op = "update"
    /\ form.open
    /\ res' = NoResponse
    /\ form' = IF res.status = 200 THEN NoForm ELSE form
    /\ UNCHANGED <<backend, transactions, now, tz, hist, edited, edits,
                   pending, table>>

\* Cancel: handleCloseEditDialog.
CloseDialog ==
    /\ res = NoResponse
    /\ form.open
    /\ form' = NoForm
    /\ UNCHANGED <<backend, transactions, now, tz, res, hist, edited, edits,
                   pending, table>>

InitDialog == StartWith("plain", {0}, StartInstants)

NextDialog ==
    \/ OpenDialog
    \/ ChangeDateTime
    \/ SubmitDialog
    \/ DialogSettled
    \/ CloseDialog

SpecDialog == InitDialog /\ [][NextDialog]_vars

\* The form's dateOnly is the calendar date of the form's dateTime.
FormPairConsistent ==
    /\ form.dateTime.form = "local"
    /\ form.dateOnly = DateText(form.dateTime.day)

\* C25: while the dialog is open over a store whose pairs are consistent,
\* whatever was typed into the date-time input, the form's dateOnly is the
\* calendar date of the form's dateTime.
C25_DialogKeepsDateOnlyInSync ==
    (form.open /\ C12_DateOnlyIsDateOfDateTime) => FormPairConsistent

-----------------------------------------------------------------------------
(* What the reads are specified to leave alone *)

ReadOps == {"list", "get", "summary", "categories", "daily"}

\* The answers the read a response answers can get from the store as it is.
ReadAgain(r) ==
    CASE r.op = "list" ->
            {ListResponse(r.req, x) : x \in getTransactions(ListFilters(r.req))}
      [] r.op = "summary" ->
            {MetricsResponse("summary", r.req, x, r.message) :
                x \in getSpendingSummary}
      [] r.op = "categories" ->
            {MetricsResponse("categories", r.req, x, r.message) :
                x \in getCategorySummary}
      [] r.op = "daily" ->
            {MetricsResponse("daily", r.req, x, r.message) :
                x \in getDailySpending(DaysAsked(r))}
      [] r.op = "get" ->
            {[r EXCEPT !.body = x.value] :
                x \in {getTransaction(parseInt(r.req.id).v)} \ {NotFound}}

\* A read was answered 200 in the step.
ReadAnswered == res = NoResponse /\ res'.op \in ReadOps /\ res'.status = 200

\* The response in flight answers a read, and the same read made now, on the
\* store the read left, is answered the same (on DbStorage: with one of the
\* orders the rows can come in).
ReadRepeats ==
    (res.op \in ReadOps /\ res.status = 200) =>
        /\ res \in ReadAgain(res)
        /\ backend = "mem" => ReadAgain(res) = {res}

\* C26: a list, a lookup or one of the three summaries leaves the stored
\* transactions as they were, contents and order; so the same read, made
\* again on the store it left, is answered the same.
C26_ReadsLeaveTheStore ==
    /\ [][ReadAnswered => transactions' = transactions]_vars
    /\ []ReadRepeats

\* A page of the newest transaction, which the store holds second.
C26_Witness ==
    /\ backend = "mem"
    /\ res.op = "list" /\ res.status = 200
    /\ Len(res.transactions) = 1 /\ Len(transactions) = NumSeed
    /\ res.transactions[1] = transactions[NumSeed]
    /\ transactions[NumSeed].dateTime.t > transactions[1].dateTime.t

-----------------------------------------------------------------------------
(* What the three metrics are specified to agree on *)

\* The summary in flight names the first entry of the category summary c.
TopIsFirstOf(c) ==
    /\ c.ok
    /\ c.entries # <<>> =>
          /\ res.body.topCategory = c.entries[1].category
          /\ res.body.topCategoryAmount = c.entries[1].total

\* C27: when the current month has a transaction, the summary's topCategory
\* and topCategoryAmount are the category and the total of the first entry
\* of the category summary of the same store and date, also when two
\* categories tie for the largest total (on DbStorage, where tied rows come
\* in any order: of a category summary it can give).
C27_TopCategoryIsFirstEntry ==
    SummaryOk =>
        /\ \E c \in getCategorySummary : TopIsFirstOf(c)
        /\ backend = "mem" => \A c \in getCategorySummary : TopIsFirstOf(c)

\* Two categories of the month with the same total.
C27_Witness ==
    /\ SummaryOk /\ backend = "mem"
    /\ \E c \in getCategorySummary :
          /\ Len(c.entries) = 2
          /\ c.entries[1].total = c.entries[2].total
          /\ res.body.topCategory = c.entries[1].category

\* The window lengths the daily series is compared at.
DaysCompared == {Num(1), Num(2), Num(3)}

UnknownSortField(q) ==
    /\ Truthy(q.sortBy)
    /\ split(q.sortBy.s)[1] \notin {<<"price">>, <<"date">>}

\* C29: a sortBy whose field is neither price nor date is answered in the
\* default order, the newest dateTime first, as the same request without a
\* sortBy is, on both storages.
C29_UnknownSortFieldIsDefaultOrder ==
    (ListOk /\ UnknownSortField(res.req)) =>
        /\ NewestFirst(res.transactions)
        /\ ResultOf(res) \in getTransactions(Reordered(Absent))

-----------------------------------------------------------------------------
(* The client's TransactionTable *)

NumTableSeed == 11      \* transactions in the store the table is shown over
TableLimit == 10        \* const limit = 10

MathMax(a, b) == IF a >= b THEN a ELSE b
MathMin(a, b) == IF a <= b THEN a ELSE b

\* A MemStorage of more transactions than one page holds: the first is a
\* Rent, the others are Food, all dated today.
TableSeeds(today) ==
    [i \in 1..NumTableSeed |->
        SeedTransaction(i, 1000, IF i = 1 THEN <<"A", "b">> ELSE <<"b">>, 0,
                        IF i = 1 THEN "Rent" ELSE "Food", today)]

InitTable ==
    /\ backend = "mem"
    /\ tz = 0
    /\ now \in StartInstants
    /\ transactions = TableSeeds(now)
    /\ res = NoResponse
    /\ hist = NoHist
    /\ edited = NoEdit
    /\ edits = 0
    /\ pending = <<>>
    /\ table = NoTable
    /\ form = NoForm

\* useQuery has no data for the query key yet.
NoData == [op |-> "none", status |-> 0]

\* The useState initial values.
MountTable ==
    /\ ~table.mounted
    /\ table' = [mounted |-> TRUE, search |-> <<>>, category |-> "all",
                 dateFilter |-> "all", sortBy |-> <<"date", ":", "desc">>,
                 page |-> 1, data |-> NoData]
    /\ UNCHANGED <<backend, transactions, now, tz, res, hist, edited, edits,
                   pending, form>>

\* number.toString() of a page or a limit.
RECURSIVE NumberText(_)
NumberText(n) ==
    IF n < 10 THEN <<CHOOSE c \in DigitChars : DigitVal(c) = n>>
    ELSE NumberText(n \div 10) \o NumberText(n % 10)

\* queryFn: the search parameters built from the query key.
TableQuery ==
    Query(IF table.search # <<>> THEN Str(table.search) ELSE Absent,
          IF table.category # "all" THEN Str(<<table.category>>) ELSE Absent,
          Str(table.sortBy),
          IF table.dateFilter # "all" THEN Str(<<table.dateFilter>>) ELSE Absent,
          Str(NumberText(table.page)),
          Str(NumberText(TableLimit)))

\* The values the model types and selects.
TableSearches == {<<>>, <<"a">>}
TableCategories == {"all", "Food", "Rent"}
TableDateFilters == {"all", "today"}
TableSorts == {<<"date", ":", "desc">>, <<"price", ":", "asc">>}

\* setSearch, setCategory, setDateFilter, setSortBy: the query key changes,
\* the page stays.
SetSearch ==
    /\ res = NoResponse /\ table.mounted
    /\ \E v \in TableSearches \ {table.search} :
          table' = [table EXCEPT !.search = v, !.data = NoData]
    /\ UNCHANGED <<backend, transactions, now, tz, res, hist, edited, edits,
                   pending, form>>

SetCategory ==
    /\ res = NoResponse /\ table.mounted
    /\ \E v \in TableCategories \ {table.category} :
          table' = [table EXCEPT !.category = v, !.data = NoData]
    /\ UNCHANGED <<backend, transactions, now, tz, res, hist, edited, edits,
                   pending, form>>

SetDateFilter ==
    /\ res = NoResponse /\ table.mounted
    /\ \E v \in TableDateFilters \ {table.dateFilter} :
          table' = [table EXCEPT !.dateFilter = v, !.data = NoData]
    /\ UNCHANGED <<backend, transactions, now, tz, res, hist, edited, edits,
                   pending, form>>

SetSortBy ==
    /\ res = NoResponse /\ table.mounted
    /\ \E v \in TableSorts \ {table.sortBy} :
          table' = [table EXCEPT !.sortBy = v, !.data = NoData]
    /\ UNCHANGED <<backend, transactions, now, tz, res, hist, edited, edits,
                   pending, form>>

\* handlePageChange(newPage): setPage.
handlePageChange(newPage) ==
    /\ newPage # table.page
    /\ table' = [table EXCEPT !.page = newPage, !.data = NoData]
    /\ UNCHANGED <<backend, transactions, now, tz, res, hist, edited, edits,
                   pending, form>>

\* The pagination controls are rendered when data.pagination.pages > 1.
PaginationShown ==
    /\ res = NoResponse /\ table.mounted
    /\ table.data # NoData
    /\ table.data.pagination.pages.k = "num"
    /\ table.data.pagination.pages.v > 1

ClickPrevious ==
    /\ PaginationShown
    /\ table.page # 1
    /\ handlePageChange(MathMax(1, table.page - 1))

ClickNext ==
    /\ PaginationShown
    /\ table.page # table.data.pagination.pages.v
    /\ handlePageChange(MathMin(table.data.pagination.pages.v, table.page + 1))

\* renderPaginationLinks: the pages that get a link.
PageLinks ==
    LET pages == table.data.pagination.pages.v
        currentPage == table.data.pagination.page.v
        startPage0 == MathMax(1, currentPage - 2)
        endPage == MathMin(pages, startPage0 + 4)
        startPage == IF endPage - startPage0 < 4 THEN MathMax(1, endPage - 4)
                     ELSE startPage0
    IN  (startPage..endPage)
            \cup (IF startPage > 1 THEN {1} ELSE {})
            \cup (IF endPage < pages THEN {pages} ELSE {})

ClickPageLink ==
    /\ PaginationShown
    /\ \E i \in PageLinks : handlePageChange(i)

\* useQuery fetches the key it has no data for.
FetchTable ==
    /\ res = NoResponse /\ table.mounted
    /\ table.data = NoData
    /\ ListTransactions(TableQuery)

\* response.json() becomes the data of the key.
TableReceive ==
    /\ res.op = "list" /\ res.status = 200
    /\ table.mounted /\ table.data = NoData
    /\ table' = [table EXCEPT !.data = res]
    /\ res' = NoResponse
    /\ UNCHANGED <<backend, transactions, now, tz, hist, edited, edits,
                   pending, form>>

NextTable ==
    \/ MountTable
    \/ SetSearch
    \/ SetCategory
    \/ SetDateFilter
    \/ SetSortBy
    \/ ClickPrevious
    \/ ClickNext
    \/ ClickPageLink
    \/ FetchTable
    \/ TableReceive

SpecTable == InitTable /\ [][NextTable]_vars

\* C30: whatever was typed, selected and clicked, the page the table shows
\* is one of the pages 1..max(1, pagination.pages) of the response for its
\* filters, so a response that counts matches is not shown without rows.
C30_PageStaysWithinPages ==
    (table.mounted /\ table.data # NoData) =>
        /\ table.data.pagination.pages.k = "num"
        /\ table.page \in 1..MathMax(1, table.data.pagination.pages.v)
        /\ table.data.pagination.total > 0 => table.data.transactions # <<>>

=============================================================================
